---- MODULE Spec2Model ----
(***************************************************************************)
(* State-machine model of the storage layer of the UFO Sighting Bot        *)
(* (src/src/utils/database.py and the adapters in src/src/utils/config.py  *)
(* and src/src/utils/tickets.py).                                          *)
(*                                                                         *)
(* Caller threads invoke public functions.  Every function call is a       *)
(* frame on the calling thread's stack; a frame of a function that uses    *)
(* `with get_db_connection() as conn` goes through                         *)
(*     lock -> body -> commit | rollback -> done                           *)
(* and holds the process-wide, non-reentrant db_lock from the step that    *)
(* leaves "lock" to the step that reaches "done".                          *)
(*                                                                         *)
(* Abstractions: timestamp columns that no function reads back             *)
(* (updated_at, added_at, last_reaction_at, ...) and the autoincrement id  *)
(* of user_reactions are left out of the rows; identifiers are drawn from  *)
(* small sets.                                                             *)
(***************************************************************************)
EXTENDS Integers, Sequences, FiniteSets, TLC

VARIABLES db, db_lock, stack, calls, now, expected, hist

vars == <<db, db_lock, stack, calls, now, expected, hist>>

(***************************************************************************)
(* Bounds of the model                                                     *)
(***************************************************************************)
NumThreads == 2
MaxCalls == 2
MaxReactCalls == 3
MaxSaveLen == 1
MaxTicketCalls == 3

\* the number of global-setting calls the model's callers make
MaxSettingCalls == 3

\* the number of calls of init_database and of the operations around it
MaxStartupCalls == 3

Threads == 1..NumThreads

\* The guild and user ids callers pass
Guilds == {1, 2}
Users == {1}

\* db_lock value when no thread holds the lock
NoThread == 0

\* Python None / SQL NULL for the text- and id-valued columns
None == "None"

ChannelIds == {"c1", "c2"}
OptChannel == ChannelIds \cup {None}

\* The deltas callers pass to increment_user_reactions and the target counts
\* they pass to save_reactions; the code accepts any integer.
Deltas == {-1, 1, 2}
Targets == {-1, 2}

TicketIds == {"t1"}

\* The user ids callers pass to the admin and ban functions
Accounts == {1, 2}

\* The first eight characters of str(uuid.uuid4()) (tickets.py:39): any of
\* the values the generator can produce, equal ones included
UuidPrefixes == {"t1", "t2"}

\* The closed_by arguments callers pass to close_ticket
Actors == {"admin", "user"}

\* The ids of tickets only the one-time import stored
ImportedIds == {"t3", "t4"}

StoredIds == UuidPrefixes \cup ImportedIds

\* The days_old argument of cleanup_old_tickets (its default); the clock
\* and created_at count days
DaysOld == {30}

(***************************************************************************)
(* The database: one set of rows per table (database.py:50-125)            *)
(***************************************************************************)
\* the tables and indexes init_database creates, in the order of its
\* statements (database.py:50-139)
SchemaObjects ==
    <<"guild_config", "global_settings", "user_reactions",
      "idx_user_reactions_guild", "admin_users", "banned_users", "tickets",
      "idx_tickets_user", "idx_tickets_status", "idx_tickets_guild">>

Tables ==
    {"guild_config", "global_settings", "user_reactions", "admin_users",
     "banned_users", "tickets"}

\* the store after init_database: every table and index exists, no rows;
\* schema is the set of the objects that exist
EmptyDb ==
    [guild_config |-> {}, user_reactions |-> {}, admin_users |-> {},
     banned_users |-> {}, tickets |-> {}, global_settings |-> {},
     schema |-> {SchemaObjects[i] : i \in 1..Len(SchemaObjects)}]

\* Mutant of CreateIfNotExists: the table is created anew, without its rows
CreateOrReplace(d, name) ==
    IF name \in Tables
    THEN [d EXCEPT ![name] = {}, !.schema = @ \cup {name}]
    ELSE [d EXCEPT !.schema = @ \cup {name}]

\* Mutant of CreateIfNotExists: guild_config is dropped and created again
CreateGuildConfigAnew(d, name) ==
    IF name = "guild_config"
    THEN [d EXCEPT !.guild_config = {}, !.schema = @ \cup {name}]
    ELSE [d EXCEPT !.schema = @ \cup {name}]

\* CREATE TABLE IF NOT EXISTS / CREATE INDEX IF NOT EXISTS: nothing when
\* the object exists, else a new empty object
CreateIfNotExists(d, name) ==
    IF name \in d.schema
    THEN d
    ELSE IF name \in Tables
    THEN [d EXCEPT ![name] = {}, !.schema = @ \cup {name}]
    ELSE [d EXCEPT !.schema = @ \cup {name}]

\* the statements of init_database up to the i-th, run on d
RECURSIVE CreateAll(_, _)
CreateAll(d, i) ==
    IF i = 0 THEN d
    ELSE CreateIfNotExists(CreateAll(d, i - 1), SchemaObjects[i])

GuildConfigRow(g, c, l, s) ==
    [guild_id |-> g, channel_id |-> c, log_channel_id |-> l,
     support_channel_id |-> s]

ReactionRow(g, u, n) ==
    [guild_id |-> g, user_id |-> u, reaction_count |-> n]

\* Python None where an integer id is passed: interaction.guild.id of a
\* direct message (support.py:58); the ids Discord gives are positive
NoneInt == -1

\* Mutant of TicketRow: user_name and guild_name are stored in each other's
\* column
TicketRowSwapped(id, u, un, g, gn, msg, created) ==
    [ticket_id |-> id, user_id |-> u, user_name |-> gn, guild_id |-> g,
     guild_name |-> un, message |-> msg, status |-> "open",
     created_at |-> created, admin_response |-> None, admin_responder |-> None,
     response_timestamp |-> None, closed_by |-> None,
     closed_timestamp |-> None]

TicketRow(id, u, un, g, gn, msg, created) ==
    [ticket_id |-> id, user_id |-> u, user_name |-> un, guild_id |-> g,
     guild_name |-> gn, message |-> msg, status |-> "open",
     created_at |-> created, admin_response |-> None, admin_responder |-> None,
     response_timestamp |-> None, closed_by |-> None,
     closed_timestamp |-> None]

\* The columns of the tickets table an UPDATE may name
TicketColumns ==
    {"ticket_id", "user_id", "user_name", "guild_id", "guild_name", "message",
     "status", "created_at", "admin_response", "admin_responder",
     "response_timestamp", "closed_by", "closed_timestamp"}

\* cursor.fetchone(): the first row of the result, or None (the empty set)
FetchOne(rows) ==
    IF rows = {} THEN {} ELSE {CHOOSE r \in rows : TRUE}

\* The result of executing one SQL statement on the connection's view d
Stmt(d, e, n) == [db |-> d, err |-> e, rowcount |-> n]

(***************************************************************************)
(* SQL statements of the guild configuration functions                     *)
(***************************************************************************)
\* SELECT * FROM guild_config WHERE guild_id = ?
SelectGuildConfig(d, g) ==
    {r \in d.guild_config : r.guild_id = g}

\* INSERT INTO guild_config (...) VALUES (?, ?, ?, ?); guild_id is the
\* primary key
InsertGuildConfig(d, g, f) ==
    IF SelectGuildConfig(d, g) # {}
    THEN Stmt(d, "IntegrityError", 0)
    ELSE Stmt([d EXCEPT !.guild_config =
                   @ \cup {GuildConfigRow(g, f.channel_id, f.log_channel_id,
                                          f.support_channel_id)}],
              "none", 1)

\* UPDATE guild_config SET <the fields that are not None> WHERE guild_id = ?
UpdateGuildConfig(d, g, f) ==
    LET upd(r) ==
            [r EXCEPT
               !.channel_id = IF f.channel_id # None THEN f.channel_id ELSE @,
               !.log_channel_id =
                   IF f.log_channel_id # None THEN f.log_channel_id ELSE @,
               !.support_channel_id =
                   IF f.support_channel_id # None
                   THEN f.support_channel_id ELSE @]
    IN Stmt([d EXCEPT !.guild_config =
                 {IF r.guild_id = g THEN upd(r) ELSE r : r \in @}],
            "none", Cardinality(SelectGuildConfig(d, g)))

(***************************************************************************)
(* SQL statements of the reaction functions                                *)
(***************************************************************************)
\* SELECT reaction_count FROM user_reactions WHERE guild_id = ? AND
\* user_id = ?
SelectUserReactions(d, g, u) ==
    {r \in d.user_reactions : r.guild_id = g /\ r.user_id = u}

\* the ON CONFLICT(guild_id, user_id) target: the rows the new row would
\* collide with under UNIQUE(guild_id, user_id)
ConflictRows(d, g, u) == SelectUserReactions(d, g, u)

\* Mutant of ConflictCount: the conflict branch stores the new value
ConflictCountReplace(old, n) == n

\* DO UPDATE SET reaction_count = reaction_count + ?
ConflictCount(old, n) == old + n

\* INSERT INTO user_reactions (...) VALUES (?, ?, ?, ...)
\* ON CONFLICT(guild_id, user_id) DO UPDATE SET reaction_count = ...
UpsertUserReactions(d, g, u, n) ==
    IF ConflictRows(d, g, u) = {}
    THEN Stmt([d EXCEPT !.user_reactions = @ \cup {ReactionRow(g, u, n)}],
              "none", 1)
    ELSE Stmt([d EXCEPT !.user_reactions =
                 {IF r \in ConflictRows(d, g, u)
                  THEN [r EXCEPT !.reaction_count = ConflictCount(@, n)]
                  ELSE r : r \in @}],
              "none", 1)

(***************************************************************************)
(* SQL statements of the admin and ban functions                           *)
(***************************************************************************)
AdminRow(u) == [user_id |-> u]

\* a global_settings row; value is TEXT
SettingRow(k, v) == [key |-> k, value |-> v]

\* Python values passed as a setting: an int, a str or None
PyInt(n) == [type |-> "int", n |-> n, s |-> ""]

PyStr(x) == [type |-> "str", n |-> 0, s |-> x]

PyNone == [type |-> "NoneType", n |-> 0, s |-> ""]

\* str(value)
Str(v) ==
    CASE v.type = "int" -> ToString(v.n)
      [] v.type = "str" -> v.s
      [] v.type = "NoneType" -> "None"

\* SELECT value FROM global_settings WHERE key = ?
SelectGlobalSetting(d, k) ==
    {r \in d.global_settings : r.key = k}

\* Mutant of ReplaceGlobalSetting: INSERT OR IGNORE, the stored row stays
IgnoreGlobalSetting(d, k, v) ==
    IF SelectGlobalSetting(d, k) # {}
    THEN Stmt(d, "none", 0)
    ELSE Stmt([d EXCEPT !.global_settings = @ \cup {SettingRow(k, v)}],
              "none", 1)

\* INSERT OR REPLACE INTO global_settings (key, value, updated_at) VALUES
\* (?, ?, CURRENT_TIMESTAMP); key is the primary key
ReplaceGlobalSetting(d, k, v) ==
    Stmt([d EXCEPT !.global_settings =
                       (@ \ SelectGlobalSetting(d, k))
                           \cup {SettingRow(k, v)}],
         "none", 1)

BannedRow(u, reason, by) == [user_id |-> u, reason |-> reason, banned_by |-> by]

\* SELECT 1 FROM admin_users WHERE user_id = ?
SelectAdminUser(d, u) ==
    {r \in d.admin_users : r.user_id = u}

\* Mutant of InsertAdminUser: INSERT OR IGNORE, a duplicate is no error
InsertAdminUserIgnore(d, u) ==
    Stmt([d EXCEPT !.admin_users = @ \cup {AdminRow(u)}], "none", 1)

\* INSERT INTO admin_users (user_id) VALUES (?); user_id is the primary key
InsertAdminUser(d, u) ==
    IF SelectAdminUser(d, u) # {}
    THEN Stmt(d, "IntegrityError", 0)
    ELSE Stmt([d EXCEPT !.admin_users = @ \cup {AdminRow(u)}], "none", 1)

\* DELETE FROM admin_users WHERE user_id = ?
DeleteAdminUser(d, u) ==
    Stmt([d EXCEPT !.admin_users = @ \ SelectAdminUser(d, u)], "none",
         Cardinality(SelectAdminUser(d, u)))

\* SELECT 1 FROM banned_users WHERE user_id = ?
SelectBannedUser(d, u) ==
    {r \in d.banned_users : r.user_id = u}

\* Mutant of InsertBannedUser: INSERT OR REPLACE, a duplicate replaces the
\* stored row
InsertBannedUserReplace(d, u, reason, by) ==
    Stmt([d EXCEPT !.banned_users =
            (@ \ SelectBannedUser(d, u)) \cup {BannedRow(u, reason, by)}],
         "none", 1)

\* INSERT INTO banned_users (user_id, reason, banned_by) VALUES (?, ?, ?);
\* user_id is the primary key
InsertBannedUser(d, u, reason, by) ==
    IF SelectBannedUser(d, u) # {}
    THEN Stmt(d, "IntegrityError", 0)
    ELSE Stmt([d EXCEPT !.banned_users = @ \cup {BannedRow(u, reason, by)}],
              "none", 1)

\* DELETE FROM banned_users WHERE user_id = ?
DeleteBannedUser(d, u) ==
    Stmt([d EXCEPT !.banned_users = @ \ SelectBannedUser(d, u)], "none",
         Cardinality(SelectBannedUser(d, u)))

(***************************************************************************)
(* SQL statements of the ticket functions                                  *)
(***************************************************************************)
\* SELECT * FROM tickets WHERE ticket_id = ?
SelectTicket(d, id) ==
    {r \in d.tickets : r.ticket_id = id}

\* Mutant of NullInNotNull: the id columns accept NULL
NullAccepted(u, g) == FALSE

\* user_id INTEGER NOT NULL, guild_id INTEGER NOT NULL (database.py:112,
\* 114): None for either fails the INSERT
NullInNotNull(u, g) == u = NoneInt \/ g = NoneInt

\* Mutant of InsertTicket: INSERT OR REPLACE, a duplicate id replaces the
\* stored ticket
InsertTicketReplace(d, id, u, un, g, gn, msg, created) ==
    Stmt([d EXCEPT !.tickets =
            (@ \ SelectTicket(d, id))
                \cup {TicketRow(id, u, un, g, gn, msg, created)}],
         "none", 1)

\* INSERT INTO tickets (...) VALUES (?, ?, ?, ?, ?, ?, 'open'); ticket_id is
\* the primary key, created_at defaults to CURRENT_TIMESTAMP
InsertTicket(d, id, u, un, g, gn, msg, created) ==
    IF NullInNotNull(u, g)
    THEN Stmt(d, "IntegrityError", 0)
    ELSE IF SelectTicket(d, id) # {}
    THEN Stmt(d, "IntegrityError", 0)
    ELSE Stmt([d EXCEPT !.tickets =
                 @ \cup {TicketRow(id, u, un, g, gn, msg, created)}],
              "none", 1)

\* Mutant of UnknownColumns: keys that name no column are dropped silently
UnknownColumnsIgnored(updates) == {}

\* the keys of **updates that name no column of tickets: the statement
\* does not compile ("no such column") and changes nothing
UnknownColumns(updates) == DOMAIN updates \ TicketColumns

\* Mutant of UpdateTickets: of several keys only status is written
UpdateTicketsStatusOnly(d, id, updates) ==
    IF UnknownColumns(updates) # {}
    THEN Stmt(d, "OperationalError", 0)
    ELSE Stmt([d EXCEPT !.tickets =
                 {IF r.ticket_id = id /\ "status" \in DOMAIN updates
                  THEN [r EXCEPT !.status = updates.status]
                  ELSE r : r \in @}],
              "none", Cardinality(SelectTicket(d, id)))

\* UPDATE tickets SET <key = ? for each key of updates> WHERE ticket_id = ?
UpdateTickets(d, id, updates) ==
    IF UnknownColumns(updates) # {}
    THEN Stmt(d, "OperationalError", 0)
    ELSE Stmt([d EXCEPT !.tickets =
                 {IF r.ticket_id = id
                  THEN [c \in DOMAIN r |->
                          IF c \in DOMAIN updates THEN updates[c] ELSE r[c]]
                  ELSE r : r \in @}],
              "none", Cardinality(SelectTicket(d, id)))

\* Mutant of DeleteTicket: the statement reports one row whether or not a
\* row matched
DeleteTicketCountsOne(d, id) ==
    Stmt([d EXCEPT !.tickets = @ \ SelectTicket(d, id)], "none", 1)

\* Python truth value of an optional text argument: None and "" are false
Truthy(v) == v # None /\ v # ""

\* Mutant of StatusMatches: the status filter is not applied
StatusMatchesAny(r, status_filter) == TRUE

\* SELECT * FROM tickets [WHERE status = ?]: the status test of the list
\* queries, made only `if status_filter:`
StatusMatches(r, status_filter) ==
    Truthy(status_filter) => r.status = status_filter

\* ORDER BY created_at DESC; rows of equal created_at come in an order the
\* engine picks
OrderByCreatedDesc(rows) ==
    CHOOSE q \in [1..Cardinality(rows) -> rows] :
        /\ \A i, j \in DOMAIN q : i < j => q[i].created_at >= q[j].created_at
        /\ \A r \in rows : \E i \in DOMAIN q : q[i] = r

\* the elements of a sequence
Range(q) == {q[i] : i \in DOMAIN q}

\* the texts that follow "closed" in the status values in use
StatusSuffixes == {"", "_by_admin", "_by_user"}

\* ticket["status"].startswith("closed")
StartsWithClosed(status) ==
    \E x \in StatusSuffixes : status = "closed" \o x

\* Mutant of Before: tickets created exactly at the cutoff are selected too
NotAfter(ticket_date, cutoff_date) == ticket_date <= cutoff_date

\* ticket_date < cutoff_date
Before(ticket_date, cutoff_date) == ticket_date < cutoff_date

\* cleanup_old_tickets, lines 73-81: the ids to delete, in the order of
\* the scanned dict
TicketsToDelete(tickets, days_old, ts) ==
    LET sel == SelectSeq(tickets,
                         LAMBDA r : /\ StartsWithClosed(r.status)
                                    /\ Before(r.created_at, ts - days_old))
    IN [i \in DOMAIN sel |-> sel[i].ticket_id]

\* DELETE FROM tickets WHERE ticket_id = ?
DeleteTicket(d, id) ==
    Stmt([d EXCEPT !.tickets = @ \ SelectTicket(d, id)], "none",
         Cardinality(SelectTicket(d, id)))

\* datetime.now().isoformat(): the clock reading as text
IsoFormat(ts) == ToString(ts)

\* dict update: the keys of b added to a, replacing equal keys
Merge(a, b) ==
    [k \in DOMAIN a \cup DOMAIN b |-> IF k \in DOMAIN b THEN b[k] ELSE a[k]]

\* Mutant of CloseStatus: the status does not name the closing actor
CloseStatusPlain(closed_by) == "closed"

\* f"closed_by_{closed_by}"
CloseStatus(closed_by) == "closed_by_" \o closed_by

\* Mutant of CloseUpdates: closed_by is not written
CloseUpdatesNoActor(closed_by, admin_response, admin_responder, ts) ==
    [status |-> CloseStatus(closed_by), closed_timestamp |-> IsoFormat(ts)]

\* close_ticket, lines 433-443: the updates dict it passes to update_ticket
CloseUpdates(closed_by, admin_response, admin_responder, ts) ==
    LET base == [status |-> CloseStatus(closed_by),
                 closed_timestamp |-> IsoFormat(ts),
                 closed_by |-> closed_by]
        resp == IF Truthy(admin_response)
                THEN [admin_response |-> admin_response] ELSE <<>>
        respr == IF Truthy(admin_responder)
                 THEN [admin_responder |-> admin_responder,
                       response_timestamp |-> IsoFormat(ts)]
                 ELSE <<>>
    IN Merge(Merge(base, resp), respr)

(***************************************************************************)
(* Frames                                                                  *)
(***************************************************************************)
NoArgs == [g |-> 0, u |-> 0, n |-> 0, id |-> None, f |-> <<>>]

Args(g, u, n, id, f) == [g |-> g, u |-> u, n |-> n, id |-> id, f |-> f]

\* A fresh frame of function fn; pc0 is where its code starts
Frame(fn, args, pc0) ==
    [fn |-> fn, args |-> args, pc |-> pc0, conn |-> FALSE, txn |-> EmptyDb,
     snap |-> EmptyDb, tx |-> "none", i |-> 1, tmp |-> {}, ret |-> {},
     err |-> "none"]

\* Functions whose body is `with get_db_connection() as conn:`
GuardedFns ==
    {"get_guild_config", "set_guild_config", "get_user_reactions",
     "increment_user_reactions", "create_ticket", "update_ticket",
     "is_admin_user", "add_admin_user", "remove_admin_user",
     "is_banned_user", "ban_user", "unban_user", "get_ticket",
     "delete_ticket", "get_all_tickets", "get_user_tickets",
     "get_guild_tickets", "get_global_setting", "set_global_setting",
     "init_database", "get_all_guild_configs"}

\* where the code of a function starts: update_ticket tests its arguments
\* before the with statement, save_reactions has no with statement
EntryPc(fn) ==
    IF fn = "update_ticket" THEN "entry"
    ELSE IF fn \in GuardedFns THEN "lock" ELSE "body"

Top(t) == stack[t][Len(stack[t])]

HasFrame(t) == stack[t] # <<>>

SetTop(t, fr) == [stack EXCEPT ![t][Len(stack[t])] = fr]

Push(t, fr, caller) ==
    [stack EXCEPT ![t] = Append([@ EXCEPT ![Len(@)] = caller], fr)]

(***************************************************************************)
(* get_db_connection (database.py:19-38)                                   *)
(***************************************************************************)
\* Mutant of LockFree: the with statement does not wait for the lock
LockFreeAlways == TRUE

\* `with db_lock:` blocks until no thread holds the lock; threading.Lock is
\* not reentrant, so the holder itself blocks too.
LockFree == db_lock = NoThread

\* Mutant of AfterBody: the context manager commits on every exit
AfterBodyCommit(err) == "commit"

\* where the context manager goes when the with-body ends: commit on a
\* normal exit, rollback when the body raised
AfterBody(err) == IF err = "none" THEN "commit" ELSE "rollback"

\* lines 25-32: take the lock, connect, yield the connection
Acquire(t) ==
    /\ HasFrame(t)
    /\ Top(t).pc = "lock"
    /\ LockFree
    /\ db_lock' = t
    /\ stack' = SetTop(t, [Top(t) EXCEPT !.pc = "body", !.conn = TRUE,
                                         !.txn = db, !.snap = db])
    /\ UNCHANGED <<db, calls, now, expected, hist>>

\* History: expected[g, u] is the count of (g, u) the import left plus the
\* deltas of the increment_user_reactions calls committed since.
Credited(fr) ==
    IF fr.fn = "increment_user_reactions"
    THEN [expected EXCEPT ![fr.args.g, fr.args.u] = @ + fr.args.n]
    ELSE expected

\* History: hist.credit[tb, u] is 1 if the import left a row of user u in
\* table tb, plus the inserts of u that returned True, minus the deletes of
\* u that returned True; hist.issued is the set of the ticket ids that
\* create_ticket calls have returned; hist.stored[id] is 1 if the import
\* left a ticket id, plus the create_ticket calls that returned id, minus
\* the delete_ticket calls of id that returned True.
Recorded(fr) ==
    LET tb == IF fr.fn \in {"add_admin_user", "remove_admin_user"}
              THEN "admin_users" ELSE "banned_users"
    IN IF fr.fn \in {"add_admin_user", "ban_user"}
       THEN [hist EXCEPT !.credit[tb, fr.args.u] =
                             IF fr.ret THEN @ + 1 ELSE @]
       ELSE IF fr.fn \in {"remove_admin_user", "unban_user"}
       THEN [hist EXCEPT !.credit[tb, fr.args.u] =
                             IF fr.ret THEN @ - 1 ELSE @]
       ELSE IF fr.fn = "create_ticket"
       THEN [hist EXCEPT !.issued = @ \cup {fr.ret},
                         !.stored[fr.args.id] = @ + 1]
       ELSE IF fr.fn = "delete_ticket"
       THEN [hist EXCEPT !.stored[fr.args.id] =
                             IF fr.ret THEN @ - 1 ELSE @]
       ELSE IF fr.fn = "init_database"
       THEN [hist EXCEPT !.startups = @ + 1]
       ELSE IF fr.fn = "set_global_setting"
       THEN [hist EXCEPT !.settings[fr.args.id] = {Str(fr.args.f.value)}]
       ELSE hist

\* line 33: conn.commit()
Commit(t) ==
    /\ HasFrame(t)
    /\ Top(t).pc = "commit"
    /\ db' = Top(t).txn
    /\ stack' = SetTop(t, [Top(t) EXCEPT !.pc = "close", !.tx = "commit"])
    /\ expected' = Credited(Top(t))
    /\ hist' = Recorded(Top(t))
    /\ UNCHANGED <<db_lock, calls, now>>

\* lines 34-36: conn.rollback(); raise
Rollback(t) ==
    /\ HasFrame(t)
    /\ Top(t).pc = "rollback"
    /\ stack' = SetTop(t, [Top(t) EXCEPT !.pc = "close", !.tx = "rollback",
                                         !.txn = db])
    /\ UNCHANGED <<db, db_lock, calls, now, expected, hist>>

\* lines 37-38 and the end of `with db_lock:`: conn.close(), release
Close(t) ==
    /\ HasFrame(t)
    /\ Top(t).pc = "close"
    /\ db_lock' = NoThread
    /\ stack' = SetTop(t, [Top(t) EXCEPT !.pc = "done", !.conn = FALSE])
    /\ UNCHANGED <<db, calls, now, expected, hist>>

(***************************************************************************)
(* Function bodies                                                         *)
(***************************************************************************)
\* The with-body of the top frame finished with return value r / error e
Finish(t, d, r, e) ==
    SetTop(t, [Top(t) EXCEPT !.txn = d, !.ret = r, !.err = e,
                             !.pc = AfterBody(e)])

\* get_guild_config (database.py:148-158)
BodyGetGuildConfig(t) ==
    LET fr == Top(t)
    IN stack' = Finish(t, fr.txn,
                       FetchOne(SelectGuildConfig(fr.txn, fr.args.g)), "none")

\* set_guild_config, line 167: existing = get_guild_config(guild_id),
\* called inside the with-body
BodySetGuildConfigCall(t) ==
    stack' = Push(t, Frame("get_guild_config",
                           [NoArgs EXCEPT !.g = Top(t).args.g], "lock"),
                  [Top(t) EXCEPT !.pc = "body2"])

\* set_guild_config, lines 169-196, with existing in tmp
BodySetGuildConfigWrite(t) ==
    LET fr == Top(t)
        f == fr.args.f
        provided == f.channel_id # None \/ f.log_channel_id # None
                    \/ f.support_channel_id # None
        st == IF fr.tmp # {}
              THEN IF provided
                   THEN UpdateGuildConfig(fr.txn, fr.args.g, f)
                   ELSE Stmt(fr.txn, "none", 0)
              ELSE InsertGuildConfig(fr.txn, fr.args.g, f)
    IN stack' = Finish(t, st.db, {}, st.err)

\* Mutant of BodyGetUserReactions: get-or-create, a missing pair is stored
\* with count 0
BodyGetUserReactionsCreating(t) ==
    LET fr == Top(t)
        st == UpsertUserReactions(fr.txn, fr.args.g, fr.args.u, 0)
    IN stack' = Finish(t, st.db, 0, "none")

\* get_user_reactions (database.py:236-247)
BodyGetUserReactions(t) ==
    LET fr == Top(t)
        rows == FetchOne(SelectUserReactions(fr.txn, fr.args.g, fr.args.u))
    IN stack' = Finish(t, fr.txn,
                       IF rows = {} THEN 0
                       ELSE (CHOOSE r \in rows : TRUE).reaction_count,
                       "none")

\* increment_user_reactions (database.py:250-262)
BodyIncrementUserReactions(t) ==
    LET fr == Top(t)
        st == UpsertUserReactions(fr.txn, fr.args.g, fr.args.u, fr.args.n)
    IN stack' = Finish(t, st.db, {}, st.err)

\* save_reactions (config.py:97-112); data is the sequence of the
\* (guild, user, count) entries of the dict in iteration order
BodySaveReactions(t) ==
    LET fr == Top(t)
        data == fr.args.f
        e == data[fr.i]
    IN CASE fr.pc = "body" ->
              \* the loop head; line 109: get_user_reactions(...)
              IF fr.i > Len(data)
              THEN stack' = SetTop(t, [fr EXCEPT !.pc = "done"])
              ELSE stack' = Push(t, Frame("get_user_reactions",
                                          Args(e.g, e.u, 0, None, <<>>),
                                          "lock"),
                                 [fr EXCEPT !.pc = "body2"])
         [] fr.pc = "body2" ->
              \* lines 110-112: diff = count - current_count
              IF e.n - fr.tmp # 0
              THEN stack' = Push(t, Frame("increment_user_reactions",
                                          Args(e.g, e.u, e.n - fr.tmp, None,
                                               <<>>),
                                          "lock"),
                                 [fr EXCEPT !.pc = "body3"])
              ELSE stack' = SetTop(t, [fr EXCEPT !.pc = "body", !.i = @ + 1])
         [] fr.pc = "body3" ->
              stack' = SetTop(t, [fr EXCEPT !.pc = "body", !.i = @ + 1])

\* save_config (config.py:56-82); config.global is the set of the values
\* under "global_log_channel_id" (empty: no such key), config.guilds the
\* guild entries in iteration order, each with the channels it names
BodySaveConfig(t) ==
    LET fr == Top(t)
        config == fr.args.f
    IN CASE fr.pc = "body" ->
              \* lines 62-63
              IF config.global # {}
              THEN stack' = Push(t, Frame("set_global_setting",
                                          [NoArgs EXCEPT
                                             !.id = "global_log_channel_id",
                                             !.f = [value |->
                                                      CHOOSE v \in
                                                        config.global : TRUE]],
                                          "lock"),
                                 [fr EXCEPT !.pc = "body2"])
              ELSE stack' = SetTop(t, [fr EXCEPT !.pc = "body2"])
         [] fr.pc = "body2" ->
              \* lines 66-82: set_guild_config(guild_id, ...)
              IF fr.i > Len(config.guilds)
              THEN stack' = SetTop(t, [fr EXCEPT !.pc = "done"])
              ELSE stack' = Push(t, Frame("set_guild_config",
                                          [NoArgs EXCEPT
                                             !.g = config.guilds[fr.i].g,
                                             !.f = config.guilds[fr.i].f],
                                          "lock"),
                                 [fr EXCEPT !.pc = "body3"])
         [] fr.pc = "body3" ->
              stack' = SetTop(t, [fr EXCEPT !.pc = "body2", !.i = @ + 1])

\* get_all_guild_configs (database.py:199-204)
BodyGetAllGuildConfigs(t) ==
    LET fr == Top(t)
    IN stack' = Finish(t, fr.txn, fr.txn.guild_config, "none")

ChannelKeys == {"channel_id", "log_channel_id", "support_channel_id"}

\* load_config, lines 36-51: the entry of one guild_config row: the
\* channel id alone when only channel_id is set, else a dict of the
\* channels that are set (keys)
ConfigEntry(r) ==
    IF /\ Truthy(r.channel_id)
       /\ ~Truthy(r.log_channel_id)
       /\ ~Truthy(r.support_channel_id)
    THEN [guild_id |-> r.guild_id, isdict |-> FALSE, keys |-> {}, row |-> r]
    ELSE [guild_id |-> r.guild_id, isdict |-> TRUE,
          keys |-> {k \in ChannelKeys : Truthy(r[k])}, row |-> r]

\* load_config (config.py:21-53): the guild entries of the dict; a dict
\* with no channel is left out
BodyLoadConfig(t) ==
    LET fr == Top(t)
    IN CASE fr.pc = "body" ->
              \* line 29
              stack' = Push(t, Frame("get_global_setting",
                                     [NoArgs EXCEPT
                                        !.id = "global_log_channel_id"],
                                     "lock"),
                            [fr EXCEPT !.pc = "body2"])
         [] fr.pc = "body2" ->
              \* line 34
              stack' = Push(t, Frame("get_all_guild_configs", NoArgs, "lock"),
                            [fr EXCEPT !.pc = "body3"])
         [] fr.pc = "body3" ->
              stack' = SetTop(t, [fr EXCEPT
                         !.ret = {e \in {ConfigEntry(r) : r \in fr.tmp} :
                                     e.isdict => e.keys # {}},
                         !.pc = "done"])

\* Mutant of Denied: the ban check lets everyone pass
DeniedNever(banned) == FALSE

\* support.py:20: `if is_user_banned(interaction.user.id):`
Denied(banned) == banned

\* support_request, lines 34-37: the support channel ids of the dict
\* entries that have one
SupportChannelIds(config) ==
    {e.row.support_channel_id :
        e \in {x \in config : x.isdict /\ "support_channel_id" \in x.keys}}

\* the /support command (support.py:18-146); args.u is interaction.user.id,
\* args.g the guild's id or None, args.f the texts and what the
\* surroundings do: bot.get_channel finds the channel or not,
\* support_channel.send delivers or fails; snap.banned_users is not empty
\* when the ban check denied the request
BodySupportRequest(t) ==
    LET fr == Top(t)
    IN CASE fr.pc = "body" ->
              \* line 20: is_user_banned(interaction.user.id)
              stack' = Push(t, Frame("is_banned_user",
                                     [NoArgs EXCEPT !.u = fr.args.u], "lock"),
                            [fr EXCEPT !.pc = "body2"])
         [] fr.pc = "body2" ->
              \* lines 20-30: config = load_config()
              IF Denied(fr.tmp)
              THEN stack' = SetTop(t, [fr EXCEPT
                               !.snap.banned_users =
                                   {BannedRow(fr.args.u, "", "")},
                               !.ret = "banned", !.pc = "done"])
              ELSE stack' = Push(t, Frame("load_config", NoArgs, "body"),
                                 [fr EXCEPT !.pc = "body3"])
         [] fr.pc = "body3" ->
              \* lines 31-61: create_ticket(...)
              IF SupportChannelIds(fr.tmp) = {}
              THEN stack' = SetTop(t, [fr EXCEPT !.ret = "no_channel",
                                                 !.pc = "done"])
              ELSE IF ~fr.args.f.channel_found
              THEN stack' = SetTop(t, [fr EXCEPT !.ret = "channel_not_found",
                                                 !.pc = "done"])
              ELSE stack' = Push(t, Frame("tickets.create_ticket",
                                          Args(fr.args.g, fr.args.u, 0, None,
                                               [user_name |->
                                                    fr.args.f.user_name,
                                                guild_name |->
                                                    IF fr.args.g # NoneInt
                                                    THEN fr.args.f.guild_name
                                                    ELSE "Direct Message",
                                                message |->
                                                    fr.args.f.message]),
                                          "body"),
                                 [fr EXCEPT !.pc = "body4"])
         [] fr.pc = "body4" ->
              \* lines 102-146: send to the support channel, tell the user;
              \* args.id is the ticket id
              stack' = SetTop(t, [fr EXCEPT
                         !.args.id = fr.tmp,
                         !.ret = IF fr.args.f.sent = "sent"
                                 THEN "request_sent" ELSE "not_sent",
                         !.pc = "done"])

\* the !ticketstats command (support.py:352-386); args.u is ctx.author.id;
\* snap.tickets holds the tickets of the first read, args.n their number;
\* the result is the closed count reported, or denied
BodyTicketStats(t) ==
    LET fr == Top(t)
    IN CASE fr.pc = "body" ->
              \* line 356: is_admin_user(ctx.author.id)
              stack' = Push(t, Frame("is_admin_user",
                                     [NoArgs EXCEPT !.u = fr.args.u], "lock"),
                            [fr EXCEPT !.pc = "body2"])
         [] fr.pc = "body2" ->
              \* lines 356-361: all_tickets = load_tickets()
              IF ~fr.tmp
              THEN stack' = SetTop(t, [fr EXCEPT
                                         !.ret = [denied |-> TRUE,
                                                  closed |-> 0],
                                         !.pc = "done"])
              ELSE stack' = Push(t, Frame("get_all_tickets",
                                          [NoArgs EXCEPT
                                             !.f = [status_filter |-> None]],
                                          "lock"),
                                 [fr EXCEPT !.pc = "body3"])
         [] fr.pc = "body3" ->
              \* line 362: open_tickets = get_open_tickets()
              stack' = Push(t, Frame("get_open_tickets", NoArgs, "body"),
                            [fr EXCEPT !.snap.tickets = Range(fr.tmp),
                                       !.args.n = Len(fr.tmp),
                                       !.pc = "body4"])
         [] fr.pc = "body4" ->
              \* line 384: len(all_tickets) - len(open_tickets)
              stack' = SetTop(t, [fr EXCEPT
                                    !.ret = [denied |-> FALSE,
                                             closed |-> fr.args.n
                                                          - Len(fr.tmp)],
                                    !.pc = "done"])

\* create_ticket (database.py:386-395)
BodyCreateTicket(t) ==
    LET fr == Top(t)
        st == InsertTicket(fr.txn, fr.args.id, fr.args.u,
                           fr.args.f.user_name, fr.args.g,
                           fr.args.f.guild_name, fr.args.f.message, now)
    IN stack' = Finish(t, st.db, fr.args.id, st.err)

\* Mutant of BodyUpdateTicketEntry: no test of the arguments before the
\* with statement
BodyUpdateTicketEntryUnchecked(t) ==
    stack' = SetTop(t, [Top(t) EXCEPT !.pc = "lock"])

\* update_ticket, lines 411-412: `if not updates: return False`, before the
\* with statement
BodyUpdateTicketEntry(t) ==
    LET fr == Top(t)
    IN IF DOMAIN fr.args.f = {}
       THEN stack' = SetTop(t, [fr EXCEPT !.ret = FALSE, !.pc = "done"])
       ELSE stack' = SetTop(t, [fr EXCEPT !.pc = "lock"])

\* update_ticket, lines 414-428
BodyUpdateTicket(t) ==
    LET fr == Top(t)
        st == UpdateTickets(fr.txn, fr.args.id, fr.args.f)
    IN stack' = Finish(t, st.db, st.rowcount > 0, st.err)

\* `except sqlite3.IntegrityError: return False` around the INSERT: the
\* error that still leaves the with-body
Uncaught(e) == IF e = "IntegrityError" THEN "none" ELSE e

\* is_admin_user (database.py:303-308)
BodyIsAdminUser(t) ==
    LET fr == Top(t)
    IN stack' = Finish(t, fr.txn,
                       FetchOne(SelectAdminUser(fr.txn, fr.args.u)) # {},
                       "none")

\* add_admin_user (database.py:311-321)
BodyAddAdminUser(t) ==
    LET fr == Top(t)
        st == InsertAdminUser(fr.txn, fr.args.u)
    IN stack' = Finish(t, st.db, st.err # "IntegrityError", Uncaught(st.err))

\* remove_admin_user (database.py:324-329)
BodyRemoveAdminUser(t) ==
    LET fr == Top(t)
        st == DeleteAdminUser(fr.txn, fr.args.u)
    IN stack' = Finish(t, st.db, st.rowcount > 0, st.err)

\* is_banned_user (database.py:344-349)
BodyIsBannedUser(t) ==
    LET fr == Top(t)
    IN stack' = Finish(t, fr.txn,
                       FetchOne(SelectBannedUser(fr.txn, fr.args.u)) # {},
                       "none")

\* ban_user (database.py:352-363)
BodyBanUser(t) ==
    LET fr == Top(t)
        st == InsertBannedUser(fr.txn, fr.args.u, fr.args.f.reason,
                               fr.args.f.banned_by)
    IN stack' = Finish(t, st.db, st.err # "IntegrityError", Uncaught(st.err))

\* unban_user (database.py:366-371)
BodyUnbanUser(t) ==
    LET fr == Top(t)
        st == DeleteBannedUser(fr.txn, fr.args.u)
    IN stack' = Finish(t, st.db, st.rowcount > 0, st.err)

\* tickets.create_ticket (tickets.py:36-44): generate the id, call the
\* database function, return the id
BodyTicketsCreateTicket(t) ==
    LET fr == Top(t)
    IN IF fr.pc = "body"
       THEN \E id \in UuidPrefixes :
                stack' = Push(t, Frame("create_ticket",
                                       [fr.args EXCEPT !.id = id], "lock"),
                              [fr EXCEPT !.args.id = id, !.pc = "body2"])
       ELSE stack' = SetTop(t, [fr EXCEPT !.ret = fr.args.id, !.pc = "done"])

\* get_ticket (database.py:398-406)
BodyGetTicket(t) ==
    LET fr == Top(t)
    IN stack' = Finish(t, fr.txn, FetchOne(SelectTicket(fr.txn, fr.args.id)),
                       "none")

\* close_ticket (database.py:431-445): build the updates, return what
\* update_ticket returns
BodyCloseTicket(t) ==
    LET fr == Top(t)
        f == fr.args.f
    IN IF fr.pc = "body"
       THEN stack' = Push(t, Frame("update_ticket",
                                   Args(0, 0, 0, fr.args.id,
                                        CloseUpdates(f.closed_by,
                                                     f.admin_response,
                                                     f.admin_responder, now)),
                                   "entry"),
                          [fr EXCEPT !.pc = "body2"])
       ELSE stack' = SetTop(t, [fr EXCEPT !.ret = fr.tmp, !.pc = "done"])

\* delete_ticket (database.py:448-453)
BodyDeleteTicket(t) ==
    LET fr == Top(t)
        st == DeleteTicket(fr.txn, fr.args.id)
    IN stack' = Finish(t, st.db, st.rowcount > 0, st.err)

\* get_all_tickets (database.py:477-494); the dict as the sequence of its
\* rows
BodyGetAllTickets(t) ==
    LET fr == Top(t)
    IN stack' = Finish(t, fr.txn,
                       OrderByCreatedDesc(
                           {r \in fr.txn.tickets :
                               StatusMatches(r, fr.args.f.status_filter)}),
                       "none")

\* init_database (database.py:41-141); its own conn.commit() of line 141
\* is followed by the context manager's, under the same lock
BodyInitDatabase(t) ==
    LET fr == Top(t)
    IN stack' = Finish(t, CreateAll(fr.txn, Len(SchemaObjects)), None, "none")

\* get_global_setting (database.py:211-219); the result is the set of the
\* value returned, empty for None
BodyGetGlobalSetting(t) ==
    LET fr == Top(t)
        row == FetchOne(SelectGlobalSetting(fr.txn, fr.args.id))
    IN stack' = Finish(t, fr.txn, {r.value : r \in row}, "none")

\* set_global_setting (database.py:222-229)
BodySetGlobalSetting(t) ==
    LET fr == Top(t)
        st == ReplaceGlobalSetting(fr.txn, fr.args.id, Str(fr.args.f.value))
    IN stack' = Finish(t, st.db, None, st.err)

\* get_user_tickets (database.py:456-474)
BodyGetUserTickets(t) ==
    LET fr == Top(t)
    IN stack' = Finish(t, fr.txn,
                       OrderByCreatedDesc(
                           {r \in fr.txn.tickets :
                               /\ r.user_id = fr.args.u
                               /\ StatusMatches(r, fr.args.f.status_filter)}),
                       "none")

\* get_guild_tickets (database.py:502-520)
BodyGetGuildTickets(t) ==
    LET fr == Top(t)
    IN stack' = Finish(t, fr.txn,
                       OrderByCreatedDesc(
                           {r \in fr.txn.tickets :
                               /\ r.guild_id = fr.args.g
                               /\ StatusMatches(r, fr.args.f.status_filter)}),
                       "none")

\* get_open_tickets (database.py:497-499)
BodyGetOpenTickets(t) ==
    LET fr == Top(t)
    IN IF fr.pc = "body"
       THEN stack' = Push(t, Frame("get_all_tickets",
                                   [NoArgs EXCEPT
                                      !.f = [status_filter |-> "open"]],
                                   "lock"),
                          [fr EXCEPT !.pc = "body2"])
       ELSE stack' = SetTop(t, [fr EXCEPT !.ret = fr.tmp, !.pc = "done"])

\* cleanup_old_tickets (tickets.py:70-88); snap.tickets holds the scanned
\* tickets, args.f the list tickets_to_delete, ret the count
BodyCleanupOldTickets(t) ==
    LET fr == Top(t)
    IN CASE fr.pc = "body" ->
              \* line 72: tickets = db_get_all_tickets()
              stack' = Push(t, Frame("get_all_tickets",
                                     [NoArgs EXCEPT
                                        !.f = [status_filter |-> None]],
                                     "lock"),
                            [fr EXCEPT !.pc = "body2"])
         [] fr.pc = "body2" ->
              \* lines 73-81
              stack' = SetTop(t, [fr EXCEPT
                                    !.snap.tickets = Range(fr.tmp),
                                    !.args.f = TicketsToDelete(fr.tmp,
                                                               fr.args.n,
                                                               now),
                                    !.ret = 0, !.i = 1, !.pc = "body3"])
         [] fr.pc = "body3" ->
              \* lines 85-86: db_delete_ticket(ticket_id)
              IF fr.i > Len(fr.args.f)
              THEN stack' = SetTop(t, [fr EXCEPT !.pc = "done"])
              ELSE stack' = Push(t, Frame("delete_ticket",
                                          [NoArgs EXCEPT
                                             !.id = fr.args.f[fr.i]],
                                          "lock"),
                                 [fr EXCEPT !.pc = "body4"])
         [] fr.pc = "body4" ->
              \* line 87: count += 1
              stack' = SetTop(t, [fr EXCEPT
                                    !.ret = IF fr.tmp THEN @ + 1 ELSE @,
                                    !.i = @ + 1, !.pc = "body3"])

\* the key the reply embed reads for the date of the original request
\* (support.py:288)
RequestDateKey == "timestamp"

\* Mutant of ReadKey: a key that is missing reads as None
ReadKeyOrNone(row, key) ==
    IF key \in DOMAIN row THEN [err |-> "none", val |-> row[key]]
    ELSE [err |-> "none", val |-> None]

\* ticket[key] on the dict(row) that get_ticket returned: its keys are the
\* columns of the tickets table, any other key raises KeyError
ReadKey(row, key) ==
    IF key \in DOMAIN row THEN [err |-> "none", val |-> row[key]]
    ELSE [err |-> "KeyError", val |-> None]

\* the !reply command (support.py:241-351); args.u is ctx.author.id, args.f
\* says whether bot.get_user finds the ticket's user and how user.send
\* ends; snap.tickets holds the ticket the command read
BodyReplyToTicket(t) ==
    LET fr == Top(t)
    IN CASE fr.pc = "body" ->
              \* line 245: is_admin_user(ctx.author.id)
              stack' = Push(t, Frame("is_admin_user",
                                     [NoArgs EXCEPT !.u = fr.args.u], "lock"),
                            [fr EXCEPT !.pc = "body2"])
         [] fr.pc = "body2" ->
              \* lines 245-250: ticket = get_ticket(ticket_id)
              IF ~fr.tmp
              THEN stack' = SetTop(t, [fr EXCEPT !.ret = "not_admin",
                                                 !.pc = "done"])
              ELSE stack' = Push(t, Frame("get_ticket",
                                          [NoArgs EXCEPT !.id = fr.args.id],
                                          "lock"),
                                 [fr EXCEPT !.pc = "body3"])
         [] fr.pc = "body3" ->
              \* lines 252-312: the early returns, then the embed
              IF fr.tmp = {}
              THEN stack' = SetTop(t, [fr EXCEPT !.ret = "not_found",
                                                 !.pc = "done"])
              ELSE LET ticket == CHOOSE r \in fr.tmp : TRUE
                       date == ReadKey(ticket, RequestDateKey)
                       seen == [fr EXCEPT !.snap.tickets = fr.tmp]
                   IN IF ticket.status # "open"
                      THEN stack' = SetTop(t, [seen EXCEPT
                                                 !.ret = "already_closed",
                                                 !.pc = "done"])
                      ELSE IF ~fr.args.f.user_found
                      THEN stack' = SetTop(t, [seen EXCEPT
                                                 !.ret = "no_user",
                                                 !.pc = "done"])
                      ELSE IF date.err # "none"
                      THEN stack' = SetTop(t, [seen EXCEPT
                                                 !.err = date.err,
                                                 !.pc = "done"])
                      ELSE stack' = SetTop(t, [seen EXCEPT !.pc = "body4"])
         [] fr.pc = "body4" ->
              \* lines 314-318: await user.send(...); delete_ticket(...)
              IF fr.args.f.dm # "sent"
              THEN stack' = SetTop(t, [fr EXCEPT !.ret = fr.args.f.dm,
                                                 !.pc = "done"])
              ELSE stack' = Push(t, Frame("delete_ticket",
                                          [NoArgs EXCEPT !.id = fr.args.id],
                                          "lock"),
                                 [fr EXCEPT !.pc = "body5"])
         [] fr.pc = "body5" ->
              \* lines 320-346: the confirmation to the admin
              stack' = SetTop(t, [fr EXCEPT !.ret = "replied",
                                            !.pc = "done"])

\* One step of the Python code of the top frame, up to its next call or to
\* the end of its with-body
Execute(t) ==
    /\ HasFrame(t)
    /\ Top(t).pc \in {"entry", "body", "body2", "body3", "body4", "body5"}
    /\ CASE Top(t).fn = "get_guild_config" -> BodyGetGuildConfig(t)
         [] Top(t).fn = "set_guild_config" /\ Top(t).pc = "body" ->
                BodySetGuildConfigCall(t)
         [] Top(t).fn = "set_guild_config" /\ Top(t).pc = "body2" ->
                BodySetGuildConfigWrite(t)
         [] Top(t).fn = "get_user_reactions" -> BodyGetUserReactions(t)
         [] Top(t).fn = "increment_user_reactions" ->
                BodyIncrementUserReactions(t)
         [] Top(t).fn = "save_reactions" -> BodySaveReactions(t)
         [] Top(t).fn = "create_ticket" -> BodyCreateTicket(t)
         [] Top(t).fn = "update_ticket" /\ Top(t).pc = "entry" ->
                BodyUpdateTicketEntry(t)
         [] Top(t).fn = "update_ticket" /\ Top(t).pc = "body" ->
                BodyUpdateTicket(t)
         [] Top(t).fn = "is_admin_user" -> BodyIsAdminUser(t)
         [] Top(t).fn = "add_admin_user" -> BodyAddAdminUser(t)
         [] Top(t).fn = "remove_admin_user" -> BodyRemoveAdminUser(t)
         [] Top(t).fn = "is_banned_user" -> BodyIsBannedUser(t)
         [] Top(t).fn = "ban_user" -> BodyBanUser(t)
         [] Top(t).fn = "unban_user" -> BodyUnbanUser(t)
         [] Top(t).fn = "tickets.create_ticket" -> BodyTicketsCreateTicket(t)
         [] Top(t).fn = "get_ticket" -> BodyGetTicket(t)
         [] Top(t).fn = "close_ticket" -> BodyCloseTicket(t)
         [] Top(t).fn = "delete_ticket" -> BodyDeleteTicket(t)
         [] Top(t).fn = "get_all_tickets" -> BodyGetAllTickets(t)
         [] Top(t).fn = "get_user_tickets" -> BodyGetUserTickets(t)
         [] Top(t).fn = "get_guild_tickets" -> BodyGetGuildTickets(t)
         [] Top(t).fn = "get_open_tickets" -> BodyGetOpenTickets(t)
         [] Top(t).fn = "reply_to_ticket" -> BodyReplyToTicket(t)
         [] Top(t).fn = "get_global_setting" -> BodyGetGlobalSetting(t)
         [] Top(t).fn = "init_database" -> BodyInitDatabase(t)
         [] Top(t).fn = "save_config" -> BodySaveConfig(t)
         [] Top(t).fn = "get_all_guild_configs" -> BodyGetAllGuildConfigs(t)
         [] Top(t).fn = "load_config" -> BodyLoadConfig(t)
         [] Top(t).fn = "support_request" -> BodySupportRequest(t)
         [] Top(t).fn = "ticket_stats" -> BodyTicketStats(t)
         [] Top(t).fn = "set_global_setting" -> BodySetGlobalSetting(t)
         [] Top(t).fn = "cleanup_old_tickets" -> BodyCleanupOldTickets(t)
    /\ UNCHANGED <<db, db_lock, calls, now, expected, hist>>

\* The top frame returns (or re-raises) to its caller: to the frame below,
\* whose with-body an error aborts, or to the thread's caller
Return(t) ==
    /\ HasFrame(t)
    /\ Top(t).pc = "done"
    /\ LET fr == Top(t)
           n == Len(stack[t])
       IN IF n = 1
          THEN stack' = [stack EXCEPT ![t] = <<>>]
          ELSE LET below == stack[t][n - 1]
                   resumed ==
                       IF fr.err = "none"
                       THEN [below EXCEPT !.tmp = fr.ret]
                       ELSE [below EXCEPT
                               !.err = fr.err,
                               !.pc = IF below.conn THEN "rollback"
                                      ELSE "done"]
               IN stack' = [stack EXCEPT ![t] =
                              Append(SubSeq(@, 1, n - 2), resumed)]
    /\ UNCHANGED <<db, db_lock, calls, now, expected, hist>>

(***************************************************************************)
(* Callers                                                                 *)
(***************************************************************************)
ReactionFns ==
    {"get_user_reactions", "increment_user_reactions", "save_reactions"}

\* the callers of the ticket life cycle: create, look up, delete
TicketFns == {"tickets.create_ticket", "get_ticket", "delete_ticket"}

\* the callers of the global settings
SettingFns == {"get_global_setting", "set_global_setting"}

\* the number of calls after which the model's callers stop
CallLimit(fn) ==
    IF fn \in ReactionFns THEN MaxReactCalls
    ELSE IF fn \in TicketFns THEN MaxTicketCalls
    ELSE IF fn \in SettingFns THEN MaxSettingCalls
    ELSE IF fn = "init_database" THEN MaxStartupCalls
    ELSE MaxCalls

\* a thread with no call in progress makes the next call
Invoke(t, fn, args) ==
    /\ stack[t] = <<>>
    /\ calls < CallLimit(fn)
    /\ stack' = [stack EXCEPT ![t] =
                   <<Frame(fn, args, EntryPc(fn))>>]
    /\ calls' = calls + 1
    /\ UNCHANGED <<db, db_lock, now, expected, hist>>

\* the channel arguments callers pass: a new channel_id alone, a new
\* log_channel_id alone, nothing
ChannelFields ==
    {[channel_id |-> "c2", log_channel_id |-> None,
      support_channel_id |-> None],
     [channel_id |-> None, log_channel_id |-> "c2",
      support_channel_id |-> None],
     [channel_id |-> None, log_channel_id |-> None,
      support_channel_id |-> None]}

InvokeGetGuildConfig(t) ==
    \E g \in Guilds :
        Invoke(t, "get_guild_config", [NoArgs EXCEPT !.g = g])

InvokeSetGuildConfig(t) ==
    \E g \in Guilds, f \in ChannelFields :
        Invoke(t, "set_guild_config", [NoArgs EXCEPT !.g = g, !.f = f])

\* the keyword arguments callers pass to update_ticket: none, columns of
\* the table, and a key that is no column
TicketUpdates ==
    {<<>>,
     [status |-> "closed_by_admin"],
     [status |-> "closed_by_admin", admin_response |-> "resp"],
     [bogus |-> "x"],
     [status |-> "closed_by_admin", bogus |-> "x"]}

\* the user_name, guild_name and message arguments callers pass to
\* create_ticket
TicketTexts ==
    {[user_name |-> "user", guild_name |-> "guild", message |-> "msg"],
     [user_name |-> "user", guild_name |-> "guild", message |-> "help"]}

InvokeCreateTicket(t) ==
    \E id \in TicketIds, u \in Users :
        Invoke(t, "create_ticket",
               Args(1, u, 0, id,
                    [user_name |-> "user", guild_name |-> "guild",
                     message |-> "msg"]))

InvokeUpdateTicket(t) ==
    \E id \in TicketIds, upd \in TicketUpdates :
        Invoke(t, "update_ticket", Args(0, 0, 0, id, upd))

InvokeGetUserReactions(t) ==
    \E g \in Guilds, u \in Users :
        Invoke(t, "get_user_reactions", Args(g, u, 0, None, <<>>))

InvokeIncrementUserReactions(t) ==
    \E g \in Guilds, u \in Users, n \in Deltas :
        Invoke(t, "increment_user_reactions", Args(g, u, n, None, <<>>))

\* the dicts callers pass to save_reactions, as entry sequences
SaveData ==
    UNION {[1..k -> [g : Guilds, u : Users, n : Targets]] :
           k \in 0..MaxSaveLen}

InvokeSaveReactions(t) ==
    \E data \in SaveData :
        Invoke(t, "save_reactions", Args(0, 0, 0, None, data))

InvokeIsAdminUser(t) ==
    \E u \in Accounts : Invoke(t, "is_admin_user", [NoArgs EXCEPT !.u = u])

InvokeAddAdminUser(t) ==
    \E u \in Accounts : Invoke(t, "add_admin_user", [NoArgs EXCEPT !.u = u])

InvokeRemoveAdminUser(t) ==
    \E u \in Accounts :
        Invoke(t, "remove_admin_user", [NoArgs EXCEPT !.u = u])

InvokeIsBannedUser(t) ==
    \E u \in Accounts : Invoke(t, "is_banned_user", [NoArgs EXCEPT !.u = u])

\* the reason and banned_by arguments callers pass to ban_user
BanDetails ==
    {[reason |-> "rude", banned_by |-> "m1"],
     [reason |-> "No reason provided", banned_by |-> "m2"]}

InvokeBanUser(t) ==
    \E u \in Accounts, f \in BanDetails :
        Invoke(t, "ban_user", [NoArgs EXCEPT !.u = u, !.f = f])

InvokeUnbanUser(t) ==
    \E u \in Accounts : Invoke(t, "unban_user", [NoArgs EXCEPT !.u = u])

InvokeTicketsCreateTicket(t) ==
    \E u \in Users, f \in TicketTexts :
        Invoke(t, "tickets.create_ticket", Args(1, u, 0, None, f))

InvokeGetTicket(t) ==
    \E id \in UuidPrefixes :
        Invoke(t, "get_ticket", [NoArgs EXCEPT !.id = id])

InvokeDeleteTicket(t) ==
    \E id \in UuidPrefixes :
        Invoke(t, "delete_ticket", [NoArgs EXCEPT !.id = id])

\* the admin_response and admin_responder arguments callers pass to
\* close_ticket: each given or omitted
Responses ==
    [admin_response : {None, "resp"}, admin_responder : {None, "mod"}]

InvokeCloseTicket(t) ==
    \E id \in UuidPrefixes, a \in Actors, r \in Responses :
        Invoke(t, "close_ticket",
               [NoArgs EXCEPT !.id = id,
                              !.f = [closed_by |-> a,
                                     admin_response |-> r.admin_response,
                                     admin_responder |-> r.admin_responder]])

\* close_ticket called with no response and with response and responder
CompleteResponses ==
    {r \in Responses :
        (r.admin_response = None) <=> (r.admin_responder = None)}

InvokeCloseTicketComplete(t) ==
    \E id \in UuidPrefixes, a \in Actors, r \in CompleteResponses :
        Invoke(t, "close_ticket",
               [NoArgs EXCEPT !.id = id,
                              !.f = [closed_by |-> a,
                                     admin_response |-> r.admin_response,
                                     admin_responder |-> r.admin_responder]])

\* get_ticket and delete_ticket called with the id of the ticket that
\* update_ticket and close_ticket callers work on
InvokeGetStoredTicket(t) ==
    \E id \in TicketIds :
        Invoke(t, "get_ticket", [NoArgs EXCEPT !.id = id])

InvokeDeleteStoredTicket(t) ==
    \E id \in TicketIds :
        Invoke(t, "delete_ticket", [NoArgs EXCEPT !.id = id])

\* close_ticket called with a response and its responder
InvokeCloseTicketResponded(t) ==
    \E id \in TicketIds, a \in Actors :
        Invoke(t, "close_ticket",
               [NoArgs EXCEPT !.id = id,
                              !.f = [closed_by |-> a,
                                     admin_response |-> "resp",
                                     admin_responder |-> "mod"]])

\* the status keyword callers pass to update_ticket; the code accepts any
\* text
StatusUpdates ==
    {[status |-> "open"], [status |-> "pending"]}

InvokeUpdateStatus(t) ==
    \E id \in UuidPrefixes, upd \in StatusUpdates :
        Invoke(t, "update_ticket", Args(0, 0, 0, id, upd))

\* what the surroundings of a !reply do: bot.get_user finds the user or
\* not; user.send delivers the message, raises discord.Forbidden or fails
\* otherwise
ReplyOutcomes ==
    [user_found : BOOLEAN, dm : {"sent", "forbidden", "error"}]

InvokeReplyToTicket(t) ==
    \E u \in Accounts, id \in TicketIds, o \in ReplyOutcomes :
        Invoke(t, "reply_to_ticket", [NoArgs EXCEPT !.u = u, !.id = id,
                                                    !.f = o])

InvokeInitDatabase(t) == Invoke(t, "init_database", NoArgs)

\* what the surroundings of a /support request do: bot.get_channel finds
\* the support channel or not; support_channel.send delivers, raises
\* discord.Forbidden or fails otherwise
RequestOutcomes ==
    {[channel_found |-> TRUE, sent |-> "sent"],
     [channel_found |-> TRUE, sent |-> "forbidden"],
     [channel_found |-> TRUE, sent |-> "error"],
     [channel_found |-> FALSE, sent |-> "sent"]}

\* a /support request, from guild 1 or in a direct message
InvokeSupportRequest(t) ==
    \E u \in Accounts, g \in {1, NoneInt}, o \in RequestOutcomes :
        Invoke(t, "support_request",
               Args(g, u, 0, None,
                    [user_name |-> "user", guild_name |-> "guild",
                     message |-> "msg", channel_found |-> o.channel_found,
                     sent |-> o.sent]))

\* the dicts callers pass to save_config: a global log channel and a guild
\* in the old format (a channel id), a guild in the dict format, the global
\* log channel alone
SavedConfigs ==
    {[global |-> {PyInt(5)},
      guilds |-> <<[g |-> 1, f |-> [channel_id |-> "c2",
                                    log_channel_id |-> None,
                                    support_channel_id |-> None]]>>],
     [global |-> {},
      guilds |-> <<[g |-> 2, f |-> [channel_id |-> None,
                                    log_channel_id |-> "c2",
                                    support_channel_id |-> None]]>>],
     [global |-> {PyInt(7)}, guilds |-> <<>>]}

InvokeSaveConfig(t) ==
    \E config \in SavedConfigs :
        Invoke(t, "save_config", [NoArgs EXCEPT !.f = config])

\* the read operations of the store
ReadFns ==
    {"get_guild_config", "get_global_setting", "get_user_reactions",
     "is_admin_user", "is_banned_user", "get_ticket", "get_all_tickets",
     "get_user_tickets", "get_guild_tickets"}

\* one call of a read operation, get_open_tickets included
InvokeRead(t) ==
    /\ calls < MaxCalls
    /\ \/ Invoke(t, "get_guild_config", [NoArgs EXCEPT !.g = 1])
       \/ Invoke(t, "get_global_setting",
                 [NoArgs EXCEPT !.id = "global_log_channel_id"])
       \/ \E g \in Guilds :
              Invoke(t, "get_user_reactions", [NoArgs EXCEPT !.g = g, !.u = 1])
       \/ Invoke(t, "is_admin_user", [NoArgs EXCEPT !.u = 2])
       \/ Invoke(t, "is_banned_user", [NoArgs EXCEPT !.u = 2])
       \/ Invoke(t, "get_ticket", [NoArgs EXCEPT !.id = "t1"])
       \/ Invoke(t, "get_all_tickets",
                 [NoArgs EXCEPT !.f = [status_filter |-> None]])
       \/ Invoke(t, "get_user_tickets",
                 [NoArgs EXCEPT !.u = 1, !.f = [status_filter |-> "open"]])
       \/ Invoke(t, "get_guild_tickets",
                 [NoArgs EXCEPT !.g = 1, !.f = [status_filter |-> None]])
       \/ Invoke(t, "get_open_tickets", NoArgs)

\* one call of a write operation, one for each table that can be written
InvokeWrite(t) ==
    /\ calls < MaxCalls
    /\ \/ Invoke(t, "set_global_setting",
                 [NoArgs EXCEPT !.id = "global_log_channel_id",
                                !.f = [value |-> PyInt(7)]])
       \/ Invoke(t, "increment_user_reactions",
                 [NoArgs EXCEPT !.g = 1, !.u = 1, !.n = 1])
       \/ Invoke(t, "add_admin_user", [NoArgs EXCEPT !.u = 2])
       \/ Invoke(t, "ban_user",
                 [NoArgs EXCEPT !.u = 2,
                                !.f = [reason |-> "rude", banned_by |-> "m1"]])
       \/ Invoke(t, "close_ticket",
                 [NoArgs EXCEPT !.id = "t1",
                                !.f = [closed_by |-> "admin",
                                       admin_response |-> None,
                                       admin_responder |-> None]])

InvokeTicketStats(t) ==
    \E u \in Accounts :
        Invoke(t, "ticket_stats", [NoArgs EXCEPT !.u = u])

\* a /support request from guild 1 whose message the channel accepts
InvokeSupportRequestDelivered(t) ==
    \E u \in Accounts :
        Invoke(t, "support_request",
               Args(1, u, 0, None,
                    [user_name |-> "user", guild_name |-> "guild",
                     message |-> "msg", channel_found |-> TRUE,
                     sent |-> "sent"]))

\* a !reply whose user is found and accepts the message
InvokeReplyDelivered(t) ==
    \E u \in Accounts, id \in TicketIds :
        Invoke(t, "reply_to_ticket",
               [NoArgs EXCEPT !.u = u, !.id = id,
                              !.f = [user_found |-> TRUE, dm |-> "sent"]])

\* the keys of global settings: the one the bot uses (config.py:29) and
\* another
SettingKeys == {"global_log_channel_id", "motd"}

\* the values callers set: channel ids, a text, None
SettingValues == {PyInt(5), PyInt(7), PyStr("hello"), PyNone}

InvokeGetGlobalSetting(t) ==
    \E k \in SettingKeys :
        Invoke(t, "get_global_setting", [NoArgs EXCEPT !.id = k])

InvokeSetGlobalSetting(t) ==
    \E k \in SettingKeys, v \in SettingValues :
        Invoke(t, "set_global_setting",
               [NoArgs EXCEPT !.id = k, !.f = [value |-> v]])

\* the status_filter arguments callers pass to the list queries
StatusFilters == {None, "open"}

InvokeGetUserTickets(t) ==
    \E u \in Accounts, sf \in StatusFilters :
        Invoke(t, "get_user_tickets",
               [NoArgs EXCEPT !.u = u, !.f = [status_filter |-> sf]])

InvokeGetGuildTickets(t) ==
    \E g \in Guilds, sf \in StatusFilters :
        Invoke(t, "get_guild_tickets",
               [NoArgs EXCEPT !.g = g, !.f = [status_filter |-> sf]])

InvokeGetAllTickets(t) ==
    \E sf \in StatusFilters :
        Invoke(t, "get_all_tickets",
               [NoArgs EXCEPT !.f = [status_filter |-> sf]])

InvokeGetOpenTickets(t) == Invoke(t, "get_open_tickets", NoArgs)

InvokeCleanupOldTickets(t) ==
    \E d \in DaysOld :
        Invoke(t, "cleanup_old_tickets", [NoArgs EXCEPT !.n = d])

\* guild_config rows the one-time import wrote before the bot started
\* (scripts/migrate_to_sqlite.py: INSERT OR REPLACE, one row per guild)
MigratedGuildConfigs ==
    {{}, {GuildConfigRow(1, "c1", None, None)}}

\* user_reactions rows the one-time import wrote
\* (scripts/migrate_to_sqlite.py: INSERT OR REPLACE, one row per pair)
MigratedReactions ==
    {{}, {ReactionRow(1, 1, 2)}}

\* what get_user_reactions is to return for (g, u) on database d
CountOf(d, g, u) ==
    IF SelectUserReactions(d, g, u) = {} THEN 0
    ELSE (CHOOSE r \in SelectUserReactions(d, g, u) : TRUE).reaction_count

\* admin_users and banned_users rows the one-time import wrote
\* (scripts/migrate_to_sqlite.py: migrate_authorized_users,
\* migrate_banned_users)
MigratedAdmins == {{}, {AdminRow(1)}}

MigratedBans == {{}, {BannedRow(1, "spam", "m0")}}

\* tickets rows the one-time import wrote (scripts/migrate_to_sqlite.py:
\* create_ticket): open tickets
MigratedTickets ==
    {{TicketRow("t1", 1, "user", 1, "guild", "msg", 0)},
     {TicketRow("t1", 1, "user", 1, "guild", "msg", 0),
      TicketRow("t2", 1, "user", 1, "guild", "help", 0)}}

\* a ticket the import stored with its status, creation day and closing
\* fields (scripts/migrate_to_sqlite.py: create_ticket, update_ticket)
ImportedTicket(id, status, created, closed_by, closed_ts) ==
    [TicketRow(id, 1, "user", 1, "guild", "msg", created) EXCEPT
       !.status = status, !.closed_by = closed_by,
       !.closed_timestamp = closed_ts]

\* imported tickets of several ages: two closed tickets created 40 days
\* ago that differ in the day they were closed only (31 and 29 days ago),
\* an open ticket created 400 days ago, a closed ticket created 30 days ago
OldTickets ==
    {ImportedTicket("t1", "closed_by_admin", -40, "admin", IsoFormat(-31)),
     ImportedTicket("t2", "closed_by_admin", -40, "admin", IsoFormat(-29)),
     ImportedTicket("t3", "open", -400, None, None),
     ImportedTicket("t4", "closed_by_user", -30, "user", IsoFormat(-30))}

\* imported tickets of two users and two guilds, open and closed
ListedTickets ==
    {[ImportedTicket("t1", "open", -3, None, None) EXCEPT !.user_id = 2],
     [ImportedTicket("t2", "closed_by_admin", -2, "admin", IsoFormat(-1))
        EXCEPT !.guild_id = 2],
     ImportedTicket("t3", "open", -1, None, None)}

\* the rows of user u in table tb of database d
RowsOf(d, tb, u) ==
    IF tb = "admin_users" THEN SelectAdminUser(d, u)
    ELSE SelectBannedUser(d, u)

InitThreads ==
    /\ expected = [g \in Guilds, u \in Users |-> CountOf(db, g, u)]
    /\ hist = [credit |-> [tb \in {"admin_users", "banned_users"},
                           u \in Accounts |->
                              Cardinality(RowsOf(db, tb, u))],
               issued |-> {},
               stored |-> [id \in StoredIds |->
                              Cardinality(SelectTicket(db, id))],
               startups |-> 0,
               settings |-> [k \in SettingKeys |->
                                {r.value : r \in
                                    SelectGlobalSetting(db, k)}]]
    /\ db_lock = NoThread
    /\ now = 0
    /\ stack = [t \in Threads |-> <<>>]
    /\ calls = 0

Init ==
    /\ \E gc \in MigratedGuildConfigs :
           db = [EmptyDb EXCEPT !.guild_config = gc]
    /\ InitThreads

InitReact ==
    /\ \E ur \in MigratedReactions :
           db = [EmptyDb EXCEPT !.user_reactions = ur]
    /\ InitThreads

InitAdmin ==
    /\ \E ad \in MigratedAdmins, bn \in MigratedBans :
           db = [EmptyDb EXCEPT !.admin_users = ad, !.banned_users = bn]
    /\ InitThreads

InitTicket ==
    /\ db = EmptyDb
    /\ InitThreads

InitClose ==
    /\ \E tk \in MigratedTickets : db = [EmptyDb EXCEPT !.tickets = tk]
    /\ InitThreads

\* two imported tickets
InitCloseTicket ==
    /\ db = [EmptyDb EXCEPT !.tickets =
                 {TicketRow("t1", 1, "user", 1, "guild", "msg", 0),
                  TicketRow("t2", 1, "user", 1, "guild", "help", 0)}]
    /\ InitThreads

InitCleanup ==
    /\ db = [EmptyDb EXCEPT !.tickets = OldTickets]
    /\ InitThreads

\* account 1 is an admin, ticket "t1" is open
InitReply ==
    /\ db = [EmptyDb EXCEPT
               !.admin_users = {AdminRow(1)},
               !.tickets = {TicketRow("t1", 2, "user", 1, "guild", "msg", 0)}]
    /\ InitThreads

\* global_settings as the import left it (migrate_to_sqlite.py): no row,
\* or the global log channel
MigratedSettings == {{}, {SettingRow("global_log_channel_id", "5")}}

InitSettings ==
    /\ \E gs \in MigratedSettings :
           db = [EmptyDb EXCEPT !.global_settings = gs]
    /\ InitThreads

\* a store in use: an admin, a global setting, reaction counts and a ticket
InitSchema ==
    /\ db = [EmptyDb EXCEPT
               !.admin_users = {AdminRow(1)},
               !.global_settings =
                   {SettingRow("global_log_channel_id", "5")},
               !.user_reactions = {ReactionRow(1, 1, 2)},
               !.tickets = {TicketRow("t1", 1, "user", 1, "guild", "msg", 0)}]
    /\ InitThreads

\* a store in use, with a guild configuration
InitReads ==
    /\ db = [EmptyDb EXCEPT
               !.guild_config = {GuildConfigRow(1, "c1", None, None)},
               !.admin_users = {AdminRow(1)},
               !.global_settings =
                   {SettingRow("global_log_channel_id", "5")},
               !.user_reactions = {ReactionRow(1, 1, 2)},
               !.tickets = {TicketRow("t1", 1, "user", 1, "guild", "msg", 0)}]
    /\ InitThreads

\* the stores the commands of the support system start from: guild 1 with
\* or without a support channel, account 1 an admin, account 2 banned,
\* ticket "t1" missing, open or closed
SupportStores ==
    {[EmptyDb EXCEPT !.guild_config = {GuildConfigRow(1, "c1", None, sc)},
                     !.admin_users = {AdminRow(1)},
                     !.banned_users = {BannedRow(2, "spam", "m0")},
                     !.tickets = tk] :
        sc \in {None, "c3"},
        tk \in {{}, {TicketRow("t1", 1, "user", 1, "guild", "msg", 0)},
                {ImportedTicket("t1", "closed_by_admin", -2, "admin",
                                IsoFormat(-1))}}}

InitSupport ==
    /\ db \in SupportStores
    /\ InitThreads

\* the stores of SupportStores that have a support channel
InitDenied ==
    /\ db \in {d \in SupportStores :
                  \E r \in d.guild_config : Truthy(r.support_channel_id)}
    /\ InitThreads

\* accounts 1 and 2 are admins, ticket "t1" is open
InitReplyRace ==
    /\ db = [EmptyDb EXCEPT
               !.admin_users = {AdminRow(1), AdminRow(2)},
               !.tickets = {TicketRow("t1", 1, "user", 1, "guild", "msg", 0)}]
    /\ InitThreads

\* account 1 is an admin; no ticket, or ticket "t1" open
InitStats ==
    /\ \E tk \in {{}, {TicketRow("t1", 1, "user", 1, "guild", "msg", 0)}} :
           db = [EmptyDb EXCEPT !.admin_users = {AdminRow(1)},
                                !.tickets = tk]
    /\ InitThreads

\* stores that create_ticket and close_ticket produce: no ticket, or "t1"
\* created 40 days ago and closed by an admin 31 days ago
InitLifecycle ==
    /\ \E tk \in {{}, {ImportedTicket("t1", "closed_by_admin", -40, "admin",
                                      IsoFormat(-31))}} :
           db = [EmptyDb EXCEPT !.tickets = tk]
    /\ InitThreads

InitList ==
    /\ db = [EmptyDb EXCEPT !.tickets = ListedTickets]
    /\ InitThreads

Next ==
    \E t \in Threads :
        \/ InvokeGetGuildConfig(t)
        \/ InvokeSetGuildConfig(t)
        \/ InvokeCreateTicket(t)
        \/ InvokeUpdateTicket(t)
        \/ Acquire(t)
        \/ Execute(t)
        \/ Commit(t)
        \/ Rollback(t)
        \/ Close(t)
        \/ Return(t)

NextReact ==
    \E t \in Threads :
        \/ InvokeGetUserReactions(t)
        \/ InvokeIncrementUserReactions(t)
        \/ Acquire(t)
        \/ Execute(t)
        \/ Commit(t)
        \/ Close(t)
        \/ Return(t)

\* the reaction functions and the save_reactions adapter
NextSave ==
    \E t \in Threads :
        \/ InvokeGetUserReactions(t)
        \/ InvokeIncrementUserReactions(t)
        \/ InvokeSaveReactions(t)
        \/ Acquire(t)
        \/ Execute(t)
        \/ Commit(t)
        \/ Close(t)
        \/ Return(t)

\* the guild configuration functions alone
NextGuild ==
    \E t \in Threads :
        \/ InvokeGetGuildConfig(t)
        \/ InvokeSetGuildConfig(t)
        \/ Acquire(t)
        \/ Execute(t)
        \/ Commit(t)
        \/ Close(t)
        \/ Return(t)

\* the admin and ban functions
NextAdmin ==
    \E t \in Threads :
        \/ InvokeIsAdminUser(t)
        \/ InvokeAddAdminUser(t)
        \/ InvokeRemoveAdminUser(t)
        \/ InvokeIsBannedUser(t)
        \/ InvokeBanUser(t)
        \/ InvokeUnbanUser(t)
        \/ Acquire(t)
        \/ Execute(t)
        \/ Commit(t)
        \/ Close(t)
        \/ Return(t)

\* the ticket life cycle: create with a generated id, look up, delete
NextTicket ==
    \E t \in Threads :
        \/ InvokeTicketsCreateTicket(t)
        \/ InvokeGetTicket(t)
        \/ InvokeDeleteTicket(t)
        \/ Acquire(t)
        \/ Execute(t)
        \/ Commit(t)
        \/ Rollback(t)
        \/ Close(t)
        \/ Return(t)

\* closing and updating stored tickets
NextClose ==
    \E t \in Threads :
        \/ InvokeCloseTicket(t)
        \/ InvokeUpdateStatus(t)
        \/ Acquire(t)
        \/ Execute(t)
        \/ Commit(t)
        \/ Close(t)
        \/ Return(t)

\* closing stored tickets, next to status updates
NextCloseTicket ==
    \E t \in Threads :
        \/ InvokeCloseTicketComplete(t)
        \/ InvokeUpdateStatus(t)
        \/ Acquire(t)
        \/ Execute(t)
        \/ Commit(t)
        \/ Close(t)
        \/ Return(t)

\* the operations on stored tickets: update, close, look up, delete
NextStore ==
    \E t \in Threads :
        \/ InvokeUpdateTicket(t)
        \/ InvokeCloseTicketResponded(t)
        \/ InvokeGetStoredTicket(t)
        \/ InvokeDeleteStoredTicket(t)
        \/ Acquire(t)
        \/ Execute(t)
        \/ Commit(t)
        \/ Rollback(t)
        \/ Close(t)
        \/ Return(t)

\* the cleanup of old tickets next to status updates and deletions
NextCleanup ==
    \E t \in Threads :
        \/ InvokeCleanupOldTickets(t)
        \/ InvokeUpdateStatus(t)
        \/ InvokeDeleteTicket(t)
        \/ Acquire(t)
        \/ Execute(t)
        \/ Commit(t)
        \/ Close(t)
        \/ Return(t)

\* the cleanup of old tickets next to deletions by other callers
NextCleanupDelete ==
    \E t \in Threads :
        \/ InvokeCleanupOldTickets(t)
        \/ InvokeDeleteStoredTicket(t)
        \/ Acquire(t)
        \/ Execute(t)
        \/ Commit(t)
        \/ Close(t)
        \/ Return(t)

\* the list queries next to callers closing a ticket
NextList ==
    \E t \in Threads :
        \/ InvokeGetUserTickets(t)
        \/ InvokeGetGuildTickets(t)
        \/ InvokeGetAllTickets(t)
        \/ InvokeGetOpenTickets(t)
        \/ InvokeCloseTicketResponded(t)
        \/ Acquire(t)
        \/ Execute(t)
        \/ Commit(t)
        \/ Close(t)
        \/ Return(t)

Spec == Init /\ [][Next]_vars

SpecList == InitList /\ [][NextList]_vars

\* the !reply command next to callers closing the ticket
NextReply ==
    \E t \in Threads :
        \/ InvokeReplyToTicket(t)
        \/ InvokeCloseTicketResponded(t)
        \/ Acquire(t)
        \/ Execute(t)
        \/ Commit(t)
        \/ Close(t)
        \/ Return(t)

SpecReply == InitReply /\ [][NextReply]_vars

\* callers reading and writing global settings
NextSettings ==
    \E t \in Threads :
        \/ InvokeGetGlobalSetting(t)
        \/ InvokeSetGlobalSetting(t)
        \/ Acquire(t)
        \/ Execute(t)
        \/ Commit(t)
        \/ Close(t)
        \/ Return(t)

SpecSettings == InitSettings /\ [][NextSettings]_vars

\* init_database called between store operations
NextSchema ==
    \E t \in Threads :
        \/ InvokeInitDatabase(t)
        \/ InvokeAddAdminUser(t)
        \/ InvokeRemoveAdminUser(t)
        \/ InvokeDeleteStoredTicket(t)
        \/ Acquire(t)
        \/ Execute(t)
        \/ Commit(t)
        \/ Close(t)
        \/ Return(t)

SpecSchema == InitSchema /\ [][NextSchema]_vars

\* every read operation next to writes of every table
NextReads ==
    \E t \in Threads :
        \/ InvokeRead(t)
        \/ InvokeWrite(t)
        \/ Acquire(t)
        \/ Execute(t)
        \/ Commit(t)
        \/ Close(t)
        \/ Return(t)

SpecReads == InitReads /\ [][NextReads]_vars

\* the writers of the guild configuration and the operations next to them
NextConfig ==
    \E t \in Threads :
        \/ InvokeSaveConfig(t)
        \/ InvokeSetGuildConfig(t)
        \/ InvokeGetGuildConfig(t)
        \/ InvokeInitDatabase(t)
        \/ Acquire(t)
        \/ Execute(t)
        \/ Commit(t)
        \/ Close(t)
        \/ Return(t)

SpecConfig == Init /\ [][NextConfig]_vars

\* the /support and !reply commands
NextSupport ==
    \E t \in Threads :
        \/ InvokeSupportRequest(t)
        \/ InvokeReplyToTicket(t)
        \/ Acquire(t)
        \/ Execute(t)
        \/ Commit(t)
        \/ Rollback(t)
        \/ Close(t)
        \/ Return(t)

SpecSupport == InitSupport /\ [][NextSupport]_vars

\* requests and replies of a banned and of an allowed user, of an admin and
\* of another user
NextDenied ==
    \E t \in Threads :
        \/ InvokeSupportRequestDelivered(t)
        \/ InvokeReplyDelivered(t)
        \/ Acquire(t)
        \/ Execute(t)
        \/ Commit(t)
        \/ Rollback(t)
        \/ Close(t)
        \/ Return(t)

SpecDenied == InitDenied /\ [][NextDenied]_vars

\* the life cycle of tickets: create, close, delete, clean up
NextLifecycle ==
    \E t \in Threads :
        \/ InvokeCreateTicket(t)
        \/ InvokeCloseTicketResponded(t)
        \/ InvokeDeleteStoredTicket(t)
        \/ InvokeCleanupOldTickets(t)
        \/ Acquire(t)
        \/ Execute(t)
        \/ Commit(t)
        \/ Rollback(t)
        \/ Close(t)
        \/ Return(t)

SpecLifecycle == InitLifecycle /\ [][NextLifecycle]_vars

\* the !ticketstats command next to callers creating, closing and deleting
\* tickets
NextStats ==
    \E t \in Threads :
        \/ InvokeTicketStats(t)
        \/ InvokeTicketsCreateTicket(t)
        \/ InvokeCloseTicketResponded(t)
        \/ InvokeDeleteStoredTicket(t)
        \/ Acquire(t)
        \/ Execute(t)
        \/ Commit(t)
        \/ Rollback(t)
        \/ Close(t)
        \/ Return(t)

SpecStats == InitStats /\ [][NextStats]_vars

\* admins replying to the same ticket
NextReplyRace ==
    \E t \in Threads :
        \/ InvokeReplyDelivered(t)
        \/ Acquire(t)
        \/ Execute(t)
        \/ Commit(t)
        \/ Close(t)
        \/ Return(t)

SpecReplyRace == InitReplyRace /\ [][NextReplyRace]_vars

SpecCleanupDelete == InitCleanup /\ [][NextCleanupDelete]_vars

SpecCleanup == InitCleanup /\ [][NextCleanup]_vars

SpecStore == InitCloseTicket /\ [][NextStore]_vars

SpecCloseTicket == InitCloseTicket /\ [][NextCloseTicket]_vars

SpecAdmin == InitAdmin /\ [][NextAdmin]_vars

SpecTicket == InitTicket /\ [][NextTicket]_vars

SpecClose == InitClose /\ [][NextClose]_vars

SpecReact == InitReact /\ [][NextReact]_vars

SpecSave == InitReact /\ [][NextSave]_vars

\* Scheduling: a thread that can run its Python code does (weak fairness),
\* and a thread that finds the lock free again and again gets it (strong
\* fairness of Acquire), so no caller is starved by the others.
Fairness ==
    \A t \in Threads :
        /\ WF_vars(Execute(t) \/ Commit(t) \/ Close(t) \/ Return(t))
        /\ SF_vars(Acquire(t))

LiveSpec == Init /\ [][NextGuild]_vars /\ Fairness

(***************************************************************************)
(* Properties                                                              *)
(***************************************************************************)
Frames(t) == {stack[t][i] : i \in 1..Len(stack[t])}

\* the number of connections that are open: frames between the connect of
\* line 29 and the close of line 38
OpenConns ==
    LET n[k \in 0..NumThreads] ==
            IF k = 0 THEN 0
            ELSE n[k - 1]
                 + Cardinality({i \in 1..Len(stack[k]) : stack[k][i].conn})
    IN n[NumThreads]

TopIs(t, fn, pc) == HasFrame(t) /\ Top(t).fn = fn /\ Top(t).pc = pc

\* C1: at most one caller of get_db_connection is between connection open
\* and connection close, whatever the mix of operations and callers.
C1_OneTransaction == OpenConns <= 1

\* C1 witness: one caller is inside its transaction while another caller is
\* blocked at the with statement.
C1_Witness ==
    \E t1, t2 \in Threads :
        /\ t1 # t2
        /\ HasFrame(t1) /\ Top(t1).conn /\ Top(t1).pc = "commit"
        /\ HasFrame(t2) /\ Top(t2).pc = "lock"

\* C2 (original claim): no store operation that holds the connection-guard
\* lock calls another store operation that acquires the same lock, i.e. no
\* thread waits at the with statement above a frame of its own that holds
\* the connection.
C2_NoNestedAcquire ==
    \A t \in Threads :
        \A i, j \in 1..Len(stack[t]) :
            ~(i < j /\ stack[t][i].conn /\ stack[t][j].pc = "lock")

\* C3 (original claim): every store operation invoked while no other
\* operation holds the lock eventually commits or rolls back, releases the
\* lock and returns to its caller.
C3_Terminates ==
    \A t \in Threads :
        (Len(stack[t]) = 1 /\ Top(t).pc = "lock" /\ db_lock = NoThread)
            ~> (stack[t] = <<>>)

\* C4: when an operation that entered get_db_connection ends, by return or
\* by a raised error, its connection is closed, it no longer holds the lock
\* (the lock is held only by a thread inside a with-body), and the last
\* transaction action was commit exactly on a normal return and rollback
\* exactly on an error.
C4_ReleasedAtEnd ==
    /\ \A t \in Threads :
           (HasFrame(t) /\ Top(t).pc = "done" /\ Top(t).fn \in GuardedFns
                /\ Top(t).tx # "none")
               => /\ ~Top(t).conn
                  /\ (Top(t).err = "none" <=> Top(t).tx = "commit")
                  /\ (Top(t).err # "none" <=> Top(t).tx = "rollback")
    /\ \A t \in Threads :
           (HasFrame(t) /\ Top(t).pc = "done" /\ Top(t).fn \in GuardedFns)
               => \/ Top(t).tx # "none"
                  \/ (Top(t).fn = "update_ticket"
                        /\ DOMAIN Top(t).args.f = {})
    /\ \A t \in Threads :
           db_lock = t => \E fr \in Frames(t) : fr.conn

\* C4 witness: one operation has ended by a raised error after a rollback,
\* the lock is taken again by another operation.
C4_Witness ==
    \E t1, t2 \in Threads :
        /\ HasFrame(t1) /\ Top(t1).pc = "done" /\ Top(t1).tx = "rollback"
        /\ Top(t1).err # "none"
        /\ db_lock = t2 /\ t2 # t1

\* C5: an update_ticket call given a key that is no ticket column fails
\* with the storage error, which reaches the caller; its transaction is
\* rolled back and, when it releases the lock, every table holds what it
\* held when the operation began.
C5_ErrorRollsBack ==
    \A t \in Threads :
        (HasFrame(t) /\ Top(t).fn = "update_ticket"
             /\ "bogus" \in DOMAIN Top(t).args.f)
            => /\ Top(t).pc \in {"close", "done"}
                   => /\ Top(t).err = "OperationalError"
                      /\ Top(t).tx = "rollback"
               /\ Top(t).pc \in {"rollback", "close"} => db = Top(t).snap
               /\ Top(t).pc # "commit"

\* C5 witness: update_ticket(status = ..., bogus = ...) on a stored ticket
\* has raised and rolled back.
C5_Witness ==
    \E t \in Threads :
        /\ TopIs(t, "update_ticket", "close")
        /\ Top(t).tx = "rollback"
        /\ DOMAIN Top(t).args.f = {"status", "bogus"}
        /\ SelectTicket(db, Top(t).args.id) # {}

\* the row set_guild_config(g, f) is to leave for guild g when its
\* transaction began on database d: the fields passed as non-None, the
\* other fields as they were (None when there was no row)
MergedRow(d, g, f) ==
    LET old == IF SelectGuildConfig(d, g) = {}
               THEN GuildConfigRow(g, None, None, None)
               ELSE CHOOSE r \in SelectGuildConfig(d, g) : TRUE
        pick(new, was) == IF new # None THEN new ELSE was
    IN GuildConfigRow(g, pick(f.channel_id, old.channel_id),
                      pick(f.log_channel_id, old.log_channel_id),
                      pick(f.support_channel_id, old.support_channel_id))

\* thread t has called set_guild_config and waits for the lock, which is
\* free, and no other thread is in a set_guild_config call
SetGuildConfigCalled(t) ==
    /\ Len(stack[t]) = 1
    /\ TopIs(t, "set_guild_config", "lock")
    /\ db_lock = NoThread
    /\ \A o \in Threads \ {t} :
           \A fr \in Frames(o) : fr.fn # "set_guild_config"

\* C6 (original claim): a set_guild_config call on an existing row yields
\* a row in which the fields passed as non-None have the passed values and
\* the other channel fields are as they were; so channel_id = X followed by
\* log_channel_id = Y yields both.
C6_PartialUpdate ==
    \A t \in Threads :
        (SetGuildConfigCalled(t)
             /\ SelectGuildConfig(db, Top(t).args.g) # {})
            ~> (/\ TopIs(t, "set_guild_config", "done")
                /\ Top(t).err = "none"
                /\ SelectGuildConfig(db, Top(t).args.g)
                       = {MergedRow(Top(t).snap, Top(t).args.g,
                                    Top(t).args.f)})

\* C7 (original claim): there is at most one guild_config row per guild id,
\* and a set_guild_config call for a guild with no row creates exactly one
\* row holding the provided fields and null for the others.
C7_InsertsOneRow ==
    /\ [](\A g \in Guilds : Cardinality(SelectGuildConfig(db, g)) <= 1)
    /\ \A t \in Threads :
           (SetGuildConfigCalled(t)
                /\ SelectGuildConfig(db, Top(t).args.g) = {})
               ~> (/\ TopIs(t, "set_guild_config", "done")
                   /\ SelectGuildConfig(db, Top(t).args.g)
                          = {GuildConfigRow(Top(t).args.g,
                                            Top(t).args.f.channel_id,
                                            Top(t).args.f.log_channel_id,
                                            Top(t).args.f.support_channel_id)})

\* thread t is in an increment_user_reactions(g, u, n) call whose
\* transaction is committed
IncrementCommitted(t, g, u, n) ==
    /\ HasFrame(t)
    /\ Top(t).fn = "increment_user_reactions"
    /\ Top(t).args.g = g /\ Top(t).args.u = u /\ Top(t).args.n = n
    /\ Top(t).tx = "commit"

\* C8: concurrent increment_user_reactions calls on one pair lose no
\* update: in every state the stored count of each pair is the count it
\* started with plus the deltas of all committed increments, so N callers
\* incrementing by 1, M times each, leave the previous count plus N*M.
C8_NoLostUpdate ==
    \A g \in Guilds, u \in Users : CountOf(db, g, u) = expected[g, u]

\* C8 witness: two callers' increments by 1 of a pair with no row were in
\* flight together, both are committed and the count is 2.
C8_Witness ==
    /\ calls = 2
    /\ IncrementCommitted(1, 1, 1, 1)
    /\ IncrementCommitted(2, 1, 1, 1)
    /\ CountOf(db, 1, 1) = 2

\* C9: get_user_reactions(g, u) returns the sum of the deltas of the
\* increments of (g, u) on top of the count the pair started with (0 for a
\* pair never seen), and a step that changes the count of a pair is the
\* commit of an increment of that very pair, adding its delta.
C9_SumOfDeltas ==
    /\ [](\A t \in Threads :
            (HasFrame(t) /\ Top(t).fn = "get_user_reactions"
                 /\ Top(t).pc \in {"commit", "close"})
                => Top(t).ret = expected[Top(t).args.g, Top(t).args.u])
    /\ [][\A g \in Guilds, u \in Users :
            CountOf(db', g, u) # CountOf(db, g, u)
                => \E t \in Threads :
                       /\ TopIs(t, "increment_user_reactions", "commit")
                       /\ Top(t).args.g = g /\ Top(t).args.u = u
                       /\ CountOf(db', g, u)
                              = CountOf(db, g, u) + Top(t).args.n]_vars

\* C9 witness: after increments by 1 and by 2 of a pair that had no row,
\* get_user_reactions has returned 3, and the other pair still has no row.
C9_Witness ==
    \E t \in Threads :
        /\ TopIs(t, "get_user_reactions", "done")
        /\ Top(t).args.g = 1 /\ Top(t).args.u = 1
        /\ Top(t).ret = 3
        /\ calls = 3
        /\ expected[1, 1] = 3
        /\ db.user_reactions = {ReactionRow(1, 1, 3)}

\* C10 (original claim): every (guild_id, user_id) pair has at most one
\* user_reactions row and its reaction_count is non-negative, whatever
\* increment_user_reactions and save_reactions calls produced the state.
C10_NonNegativeUnique ==
    /\ \A g \in Guilds, u \in Users :
           Cardinality(SelectUserReactions(db, g, u)) <= 1
    /\ \A r \in db.user_reactions : r.reaction_count >= 0

\* thread t is in a call of fn that has committed and still holds the lock
Committed(t, fn) ==
    /\ TopIs(t, fn, "close")
    /\ Top(t).tx = "commit"

\* C11: add_admin_user(u) returns True exactly when u was not an admin
\* when the call's transaction began and False when u already was; either
\* way u is an admin afterwards (is_admin_user answers by the stored set)
\* and the membership of every other user is as it was; after
\* remove_admin_user(u), u is no admin.
C11_AddAdminUser ==
    \A t \in Threads :
        /\ Committed(t, "add_admin_user")
              => /\ Top(t).ret = (SelectAdminUser(Top(t).snap, Top(t).args.u)
                                    = {})
                 /\ SelectAdminUser(db, Top(t).args.u) # {}
                 /\ \A o \in Accounts \ {Top(t).args.u} :
                        SelectAdminUser(db, o)
                            = SelectAdminUser(Top(t).snap, o)
        /\ Committed(t, "remove_admin_user")
              => SelectAdminUser(db, Top(t).args.u) = {}
        /\ Committed(t, "is_admin_user")
              => Top(t).ret = (SelectAdminUser(db, Top(t).args.u) # {})

\* C11 witness: add_admin_user(1) has returned False for a user that was an
\* admin already, next to another admin added before.
C11_Witness ==
    \E t \in Threads :
        /\ Committed(t, "add_admin_user")
        /\ Top(t).args.u = 1
        /\ Top(t).ret = FALSE
        /\ db.admin_users = {AdminRow(1), AdminRow(2)}

\* C12: ban_user on a user who is banned already returns False without
\* raising and leaves the stored reason and banned_by of the existing ban as
\* they were; on a user who is not banned it returns True and stores the
\* given reason and banned_by.
C12_BanUser ==
    \A t \in Threads :
        /\ (HasFrame(t) /\ Top(t).fn = "ban_user")
              => Top(t).err = "none" /\ Top(t).pc # "rollback"
        /\ (Committed(t, "ban_user")
               /\ SelectBannedUser(Top(t).snap, Top(t).args.u) # {})
              => /\ Top(t).ret = FALSE
                 /\ SelectBannedUser(db, Top(t).args.u)
                        = SelectBannedUser(Top(t).snap, Top(t).args.u)
        /\ (Committed(t, "ban_user")
               /\ SelectBannedUser(Top(t).snap, Top(t).args.u) = {})
              => /\ Top(t).ret = TRUE
                 /\ SelectBannedUser(db, Top(t).args.u)
                        = {BannedRow(Top(t).args.u, Top(t).args.f.reason,
                                     Top(t).args.f.banned_by)}

\* C12 witness: ban_user(1, "rude", "m1") has returned False and the ban
\* the import stored for user 1 is as it was.
C12_Witness ==
    \E t \in Threads :
        /\ Committed(t, "ban_user")
        /\ Top(t).args.u = 1
        /\ Top(t).args.f.reason = "rude"
        /\ Top(t).ret = FALSE
        /\ SelectBannedUser(db, 1) = {BannedRow(1, "spam", "m0")}

\* the number of rows of user u in table tb
Membership(tb, u) == Cardinality(RowsOf(db, tb, u))

\* C13: remove_admin_user and unban_user return True exactly when a row of
\* the user existed when the call's transaction began; a call that returns
\* False changes nothing; and of the callers removing one row concurrently
\* exactly one gets True: the rows of each user are always the imported row
\* plus the inserts that returned True minus the removals that returned
\* True, and never fewer than none.
C13_RemoveOnce ==
    /\ \A t \in Threads :
           /\ Committed(t, "remove_admin_user")
                 => /\ Top(t).ret
                           = (SelectAdminUser(Top(t).snap, Top(t).args.u) # {})
                    /\ Top(t).ret = FALSE => db = Top(t).snap
           /\ Committed(t, "unban_user")
                 => /\ Top(t).ret
                           = (SelectBannedUser(Top(t).snap, Top(t).args.u)
                                  # {})
                    /\ Top(t).ret = FALSE => db = Top(t).snap
    /\ \A tb \in {"admin_users", "banned_users"}, u \in Accounts :
           /\ Membership(tb, u) = hist.credit[tb, u]
           /\ hist.credit[tb, u] \in {0, 1}

\* C13 witness: two callers removed admin 1 concurrently; one call has
\* returned True, the other False, and user 1 is no admin.
C13_Witness ==
    \E t1, t2 \in Threads :
        /\ TopIs(t1, "remove_admin_user", "done")
        /\ Top(t1).args.u = 1 /\ Top(t1).ret = TRUE
        /\ Committed(t2, "remove_admin_user")
        /\ Top(t2).args.u = 1 /\ Top(t2).ret = FALSE
        /\ SelectAdminUser(db, 1) = {}

\* the functions that insert a row under a primary key
InsertFns == {"add_admin_user", "ban_user", "create_ticket"}

\* C14 (original claim): for every insert operation (add_admin_user,
\* ban_user, create_ticket) an insert whose primary key exists already is
\* caught at the insert and reported as a boolean, never raised: no call of
\* an insert operation ends in an error.
C14_InsertNeverRaises ==
    \A t \in Threads :
        \A fr \in Frames(t) : fr.fn \in InsertFns => fr.err = "none"

C16_NewTicketIsOpen ==
    \A t \in Threads :
        /\ Committed(t, "create_ticket")
              => SelectTicket(db, Top(t).args.id)
                    = {[ticket_id |-> Top(t).args.id,
                        user_id |-> Top(t).args.u,
                        user_name |-> Top(t).args.f.user_name,
                        guild_id |-> Top(t).args.g,
                        guild_name |-> Top(t).args.f.guild_name,
                        message |-> Top(t).args.f.message,
                        status |-> "open", created_at |-> now,
                        admin_response |-> None, admin_responder |-> None,
                        response_timestamp |-> None, closed_by |-> None,
                        closed_timestamp |-> None]}
        /\ Committed(t, "get_ticket")
              => Top(t).ret = SelectTicket(db, Top(t).args.id)

\* C16 witness: get_ticket("t2") has returned the ticket that a
\* create_ticket call with message "help" has just stored.
C16_Witness ==
    \E t \in Threads :
        /\ TopIs(t, "get_ticket", "done")
        /\ calls = 2
        /\ Top(t).ret = {TicketRow("t2", 1, "user", 1, "guild", "help", now)}

\* the status values of a closed ticket
ClosedStatuses == {"closed_by_" \o a : a \in Actors}

\* C17 (original claim): closed is terminal: once a ticket's status is
\* closed_by_X no store operation changes it to another value; the ticket
\* can only stay as it is or be deleted.
C17_ClosedIsTerminal ==
    \A t \in Threads :
        Committed(t, "update_ticket")
            => \A r \in Top(t).snap.tickets :
                   r.status \in ClosedStatuses
                       => \A r2 \in SelectTicket(db, r.ticket_id) :
                              r2.status = r.status

\* C18 (original claim): in every reachable state every ticket's status is
\* "open" or closed_by_<actor>, whatever calls produced the state.
C18_StatusDomain ==
    \A r \in db.tickets : r.status = "open" \/ r.status \in ClosedStatuses

\* thread t is in the update_ticket call of a close_ticket call; the update
\* has committed and still holds the lock
ClosingCommitted(t) ==
    /\ Len(stack[t]) = 2
    /\ stack[t][1].fn = "close_ticket"
    /\ Committed(t, "update_ticket")

\* C19: close_ticket(id, closed_by, ...) on an existing ticket returns
\* True and leaves the ticket with status closed_by_<closed_by>, closed_by
\* and closed_timestamp set, all by one commit; the ticket's user_id,
\* user_name, guild_id, guild_name, message and created_at and every other
\* ticket are unchanged.
C19_CloseTicket ==
    /\ \A t \in Threads :
           (ClosingCommitted(t)
                /\ SelectTicket(Top(t).snap, Top(t).args.id) # {})
               => LET c == stack[t][1].args.f
                      old == SelectTicket(Top(t).snap, Top(t).args.id)
                      new == SelectTicket(db, Top(t).args.id)
                  IN /\ Top(t).ret = TRUE
                     /\ Cardinality(new) = 1
                     /\ \A r \in new :
                            /\ r.status = "closed_by_" \o c.closed_by
                            /\ r.closed_by = c.closed_by
                            /\ r.closed_timestamp = IsoFormat(now)
                            /\ \E o \in old :
                                   /\ r.user_id = o.user_id
                                   /\ r.user_name = o.user_name
                                   /\ r.guild_id = o.guild_id
                                   /\ r.guild_name = o.guild_name
                                   /\ r.message = o.message
                                   /\ r.created_at = o.created_at
                     /\ db.tickets \ new = Top(t).snap.tickets \ old
    /\ \A t \in Threads :
           TopIs(t, "close_ticket", "done") => Top(t).ret = Top(t).tmp
    /\ \A r \in db.tickets :
           r.status \in ClosedStatuses
               => /\ r.closed_by # None
                  /\ r.closed_timestamp # None
                  /\ r.status = "closed_by_" \o r.closed_by

\* C19 witness: close_ticket("t1", "user") has committed on a ticket that
\* was closed by admin; ticket t2 is still open.
C19_Witness ==
    \E t \in Threads :
        /\ ClosingCommitted(t)
        /\ Top(t).args.id = "t1"
        /\ Top(t).ret = TRUE
        /\ stack[t][1].args.f.closed_by = "user"
        /\ \E o \in SelectTicket(Top(t).snap, "t1") :
               o.status = "closed_by_admin"
        /\ \E r \in SelectTicket(db, "t2") : r.status = "open"

\* C20 (original claim): close_ticket writes admin_response,
\* admin_responder and response_timestamp exactly when admin_responder is
\* given, all three together, and leaves the three as they were otherwise.
C20_ResponseTogether ==
    \A t \in Threads :
        ClosingCommitted(t)
            => LET c == stack[t][1].args.f
               IN \A r \in SelectTicket(db, Top(t).args.id) :
                      \E o \in SelectTicket(Top(t).snap, Top(t).args.id) :
                          IF Truthy(c.admin_responder)
                          THEN /\ r.admin_response = c.admin_response
                               /\ r.admin_responder = c.admin_responder
                               /\ r.response_timestamp = IsoFormat(now)
                          ELSE /\ r.admin_response = o.admin_response
                               /\ r.admin_responder = o.admin_responder
                               /\ r.response_timestamp
                                      = o.response_timestamp

\* thread t is in a call of update_ticket that names columns only, of the
\* update_ticket call of close_ticket, or of delete_ticket
ChangesTicket(t) ==
    /\ HasFrame(t)
    /\ \/ Top(t).fn = "delete_ticket"
       \/ /\ Top(t).fn = "update_ticket"
          /\ DOMAIN Top(t).args.f \subseteq TicketColumns
          /\ DOMAIN Top(t).args.f # {}

\* C21: update_ticket, close_ticket and delete_ticket called with a ticket
\* id that is not in the store when the call's transaction begins (never
\* stored, or deleted by a concurrent caller while the call waited) return
\* False, raise no error and leave the whole store unchanged.
C21_NotFoundIsFalse ==
    \A t \in Threads :
        /\ (ChangesTicket(t) /\ Top(t).pc \in {"commit", "close", "done"}
               /\ SelectTicket(Top(t).snap, Top(t).args.id) = {})
              => /\ Top(t).ret = FALSE
                 /\ Top(t).err = "none"
                 /\ Top(t).txn = Top(t).snap
                 /\ Top(t).pc = "close" => db = Top(t).snap
        /\ (TopIs(t, "close_ticket", "done") /\ Top(t).err = "none")
              => Top(t).ret = Top(t).tmp

\* C21 witness: while one caller's delete_ticket("t1") returned True,
\* another caller's close_ticket("t1") was in flight; its update found no
\* ticket and returned False.
C21_Witness ==
    \E t1, t2 \in Threads :
        /\ TopIs(t1, "delete_ticket", "done")
        /\ Top(t1).args.id = "t1" /\ Top(t1).ret = TRUE
        /\ ClosingCommitted(t2)
        /\ Top(t2).args.id = "t1" /\ Top(t2).ret = FALSE
        /\ calls = 2

\* C22: update_ticket called with no fields is rejected: it returns False
\* and changes no ticket, for a stored id as for a missing one, and it
\* neither starts a transaction nor takes the lock.
C22_EmptyUpdateRejected ==
    \A t \in Threads :
        (HasFrame(t) /\ Top(t).fn = "update_ticket"
             /\ DOMAIN Top(t).args.f = {})
            => /\ Top(t).pc \in {"entry", "done"}
               /\ ~Top(t).conn
               /\ Top(t).tx = "none"
               /\ db_lock # t
               /\ Top(t).pc = "done"
                      => Top(t).ret = FALSE /\ Top(t).err = "none"

\* C22 witness: update_ticket("t1") with no fields has returned False for
\* a stored ticket while another caller holds the lock.
C22_Witness ==
    \E t, o \in Threads :
        /\ TopIs(t, "update_ticket", "done")
        /\ DOMAIN Top(t).args.f = {}
        /\ Top(t).ret = FALSE
        /\ SelectTicket(db, Top(t).args.id) # {}
        /\ o # t /\ db_lock = o

\* C23: a multi-field update_ticket or close_ticket is all-or-nothing.
\* Every step that changes a stored ticket is the commit of one
\* update_ticket call (close_ticket's included) on that ticket and gives
\* every field named in the call its new value at once, the other fields
\* keeping theirs; get_ticket returns the committed row, so no caller reads
\* a ticket with only some of the fields applied; a call that fails leaves
\* the store as it was.
C23_AllOrNothing ==
    /\ [](\A t \in Threads :
            /\ Committed(t, "get_ticket")
                  => Top(t).ret = SelectTicket(db, Top(t).args.id)
            /\ (HasFrame(t) /\ Top(t).fn = "update_ticket"
                   /\ Top(t).err # "none"
                   /\ Top(t).pc \in {"rollback", "close"})
                  => db = Top(t).snap)
    /\ [][\A id \in UuidPrefixes :
            (SelectTicket(db', id) # SelectTicket(db, id)
                 /\ SelectTicket(db', id) # {})
                => \E t \in Threads :
                       /\ TopIs(t, "update_ticket", "commit")
                       /\ Top(t).args.id = id
                       /\ SelectTicket(db', id)
                              = {Merge(r, Top(t).args.f) :
                                     r \in SelectTicket(db, id)}]_vars

\* C23 witness: get_ticket("t1") has returned the ticket after a
\* close_ticket call wrote its six fields.
C23_Witness ==
    \E t \in Threads :
        /\ TopIs(t, "get_ticket", "done")
        /\ \E r \in Top(t).ret :
               /\ r.status = "closed_by_user"
               /\ r.closed_by = "user"
               /\ r.closed_timestamp = IsoFormat(now)
               /\ r.admin_response = "resp"
               /\ r.admin_responder = "mod"
               /\ r.response_timestamp = IsoFormat(now)

\* C24: delete_ticket(id) returns True exactly when a ticket with the id
\* existed when its transaction began; afterwards no ticket has the id
\* (get_ticket returns None for an id no ticket has) and every other
\* ticket is unchanged; of the callers deleting one ticket concurrently
\* exactly one gets True: the tickets of an id are always those created
\* minus the deletions that returned True.
C24_DeleteOnce ==
    /\ \A t \in Threads :
           /\ Committed(t, "delete_ticket")
                 => /\ Top(t).ret
                           = (SelectTicket(Top(t).snap, Top(t).args.id) # {})
                    /\ SelectTicket(db, Top(t).args.id) = {}
                    /\ db.tickets
                           = Top(t).snap.tickets
                                 \ SelectTicket(Top(t).snap, Top(t).args.id)
           /\ (Committed(t, "get_ticket")
                  /\ SelectTicket(db, Top(t).args.id) = {})
                 => Top(t).ret = {}
    /\ \A id \in UuidPrefixes :
           /\ Cardinality(SelectTicket(db, id)) = hist.stored[id]
           /\ hist.stored[id] \in {0, 1}

\* C24 witness: two callers deleted ticket "t1" concurrently; one call has
\* returned True, the other False, and no ticket has the id.
C24_Witness ==
    \E t1, t2 \in Threads :
        /\ TopIs(t1, "delete_ticket", "done")
        /\ Top(t1).args.id = "t1" /\ Top(t1).ret = TRUE
        /\ Committed(t2, "delete_ticket")
        /\ Top(t2).args.id = "t1" /\ Top(t2).ret = FALSE
        /\ SelectTicket(db, "t1") = {}

\* thread t is in a delete_ticket call of cleanup_old_tickets; the delete
\* has committed and still holds the lock
CleanupDeleteCommitted(t) ==
    /\ Len(stack[t]) = 2
    /\ stack[t][1].fn = "cleanup_old_tickets"
    /\ Committed(t, "delete_ticket")

\* C25 (original claim): cleanup_old_tickets never removes a ticket whose
\* status is "open", whatever other store operations run between its scan
\* of the tickets and its deletes.
C25_CleanupKeepsOpen ==
    \A t \in Threads :
        CleanupDeleteCommitted(t)
            => \A r \in SelectTicket(Top(t).snap, Top(t).args.id) :
                   r.status # "open"

\* C26: run with no concurrent operation, cleanup_old_tickets(d) deletes
\* exactly the tickets whose status begins with "closed" and whose
\* created_at is strictly older than now minus d days, keeps every other
\* ticket and returns the number of tickets it removed; when another caller
\* deletes a selected ticket first, that ticket is not counted.
C26_CleanupSelects ==
    \A t \in Threads :
        TopIs(t, "cleanup_old_tickets", "done")
            => LET sel == {r \in OldTickets :
                              /\ StartsWithClosed(r.status)
                              /\ r.created_at < now - Top(t).args.n}
               IN /\ calls = 1
                        => /\ Top(t).ret = Cardinality(sel)
                           /\ db.tickets = OldTickets \ sel
                  /\ \A o \in Threads :
                         (/\ calls = 2
                          /\ Len(stack[o]) = 1
                          /\ TopIs(o, "delete_ticket", "done")
                          /\ Top(o).ret = TRUE
                          /\ \E r \in sel : r.ticket_id = Top(o).args.id)
                            => /\ Top(t).ret = Cardinality(sel) - 1
                               /\ db.tickets = OldTickets \ sel

\* C26 witness: cleanup_old_tickets(30) has returned 1: of the two tickets
\* it selected another caller deleted "t1" first; the open ticket and the
\* closed ticket created 30 days ago are kept.
C26_Witness ==
    \E t, o \in Threads :
        /\ TopIs(t, "cleanup_old_tickets", "done")
        /\ Top(t).args.n = 30
        /\ Top(t).ret = 1
        /\ TopIs(o, "delete_ticket", "done")
        /\ Top(o).args.id = "t1" /\ Top(o).ret = TRUE
        /\ calls = 2
        /\ {r.ticket_id : r \in db.tickets} = {"t3", "t4"}

\* C27 (original claim): of two tickets that are identical except for the
\* time they were closed, cleanup_old_tickets(30) deletes the one closed 31
\* days ago ("t1") and retains the one closed 29 days ago ("t2").
C27_ClosedAgeDecides ==
    \A t \in Threads :
        (TopIs(t, "cleanup_old_tickets", "done") /\ Top(t).args.n = 30
             /\ calls = 1)
            => /\ SelectTicket(db, "t1") = {}
               /\ SelectTicket(db, "t2") # {}

\* the tickets of database d whose status is s, all tickets when no s is
\* given
OfStatus(d, s) == {r \in d.tickets : s # None => r.status = s}

\* C28: get_user_tickets(u, s), get_guild_tickets(g, s) and
\* get_all_tickets(s) return exactly the stored tickets of the user or
\* guild whose status equals s when s is given, and all the matching
\* tickets without s; get_open_tickets() returns what
\* get_all_tickets("open") returns, exactly the tickets with status "open".
C28_ListQueries ==
    \A t \in Threads :
        /\ Committed(t, "get_user_tickets")
              => /\ Range(Top(t).ret)
                        = {r \in OfStatus(db, Top(t).args.f.status_filter) :
                              r.user_id = Top(t).args.u}
                 /\ Len(Top(t).ret) = Cardinality(Range(Top(t).ret))
        /\ Committed(t, "get_guild_tickets")
              => /\ Range(Top(t).ret)
                        = {r \in OfStatus(db, Top(t).args.f.status_filter) :
                              r.guild_id = Top(t).args.g}
                 /\ Len(Top(t).ret) = Cardinality(Range(Top(t).ret))
        /\ Committed(t, "get_all_tickets")
              => /\ Range(Top(t).ret)
                        = OfStatus(db, Top(t).args.f.status_filter)
                 /\ Len(Top(t).ret) = Cardinality(Range(Top(t).ret))
        /\ (Len(stack[t]) = 2 /\ stack[t][1].fn = "get_open_tickets")
              => /\ Top(t).fn = "get_all_tickets"
                 /\ Top(t).args.f.status_filter = "open"
        /\ TopIs(t, "get_open_tickets", "done") => Top(t).ret = Top(t).tmp

\* C28 witness: get_open_tickets() has returned the one ticket that is
\* still open after "t1" was closed.
C28_Witness ==
    \E t \in Threads :
        /\ TopIs(t, "get_open_tickets", "done")
        /\ {r.ticket_id : r \in Range(Top(t).ret)} = {"t3"}
        /\ {r.ticket_id : r \in db.tickets} = {"t1", "t2", "t3"}

\* C29: when an admin runs the reply command for an existing open ticket
\* whose user is found and whose direct message is delivered, the command
\* calls delete_ticket and the ticket is absent when the command ends.
C29_ReplyDeletes ==
    \A t \in Threads :
        (/\ TopIs(t, "reply_to_ticket", "done")
         /\ Top(t).snap.tickets # {}
         /\ \A r \in Top(t).snap.tickets : r.status = "open"
         /\ Top(t).args.f.user_found
         /\ Top(t).args.f.dm = "sent")
            => /\ Top(t).err = "none"
               /\ Top(t).ret = "replied"
               /\ SelectTicket(db, Top(t).args.id) = {}

\* C30: global settings are last-write-wins with one row per key:
\* get_global_setting(k) returns the string form of the value most recently
\* set for k and nothing for a key never set, and set_global_setting on
\* one key leaves the rows of the other keys as they were.
C30_LastWriteWins ==
    /\ \A k \in SettingKeys :
          /\ Cardinality(SelectGlobalSetting(db, k)) <= 1
          /\ {r.value : r \in SelectGlobalSetting(db, k)} = hist.settings[k]
    /\ \A t \in Threads :
          /\ Committed(t, "get_global_setting")
                => Top(t).ret = hist.settings[Top(t).args.id]
          /\ Committed(t, "set_global_setting")
                => \A k \in SettingKeys \ {Top(t).args.id} :
                       SelectGlobalSetting(db, k)
                           = SelectGlobalSetting(Top(t).snap, k)

\* C30 witness: after "global_log_channel_id" was set to 5 and then to 7
\* and nothing was set for "motd", a get of the first key returns "7".
C30_Witness ==
    \E t \in Threads :
        /\ Committed(t, "get_global_setting")
        /\ Top(t).args.id = "global_log_channel_id"
        /\ Top(t).ret = {"7"}
        /\ calls = 3
        /\ SelectGlobalSetting(db, "motd") = {}

\* C31: init_database is idempotent: called on a store that has the tables,
\* at any point of a sequence of store operations, it leaves every row of
\* every table (and the schema) as it found them, so that a second call
\* has the result of the first.
C31_InitIdempotent ==
    \A t \in Threads :
        Committed(t, "init_database") => db = Top(t).snap

\* C31 witness: init_database has committed a second time, after an admin
\* was added, on a store that has rows in its tables.
C31_Witness ==
    \E t \in Threads :
        /\ Committed(t, "init_database")
        /\ hist.startups = 2
        /\ db.admin_users = {AdminRow(1), AdminRow(2)}
        /\ db.tickets # {}
        /\ db.user_reactions # {}

\* what the read operation of frame fr is to return on store d
ReadResult(d, fr) ==
    CASE fr.fn = "get_guild_config" ->
             FetchOne(SelectGuildConfig(d, fr.args.g))
      [] fr.fn = "get_global_setting" ->
             {r.value : r \in SelectGlobalSetting(d, fr.args.id)}
      [] fr.fn = "get_user_reactions" -> CountOf(d, fr.args.g, fr.args.u)
      [] fr.fn = "is_admin_user" -> SelectAdminUser(d, fr.args.u) # {}
      [] fr.fn = "is_banned_user" -> SelectBannedUser(d, fr.args.u) # {}
      [] fr.fn = "get_ticket" -> SelectTicket(d, fr.args.id)
      [] fr.fn = "get_all_tickets" ->
             OfStatus(d, fr.args.f.status_filter)
      [] fr.fn = "get_user_tickets" ->
             {r \in OfStatus(d, fr.args.f.status_filter) :
                 r.user_id = fr.args.u}
      [] fr.fn = "get_guild_tickets" ->
             {r \in OfStatus(d, fr.args.f.status_filter) :
                 r.guild_id = fr.args.g}

\* the rows a list query returned; the result of another read as it is
Returned(fr) ==
    IF fr.fn \in {"get_all_tickets", "get_user_tickets", "get_guild_tickets"}
    THEN Range(fr.ret)
    ELSE fr.ret

\* C32: reads are pure and never stale: each read operation leaves the
\* store as it found it and returns what the store holds at its commit,
\* which is what the most recently committed write produced.
C32_ReadsPure ==
    \A t \in Threads :
        \A fn \in ReadFns :
            Committed(t, fn)
                => /\ db = Top(t).snap
                   /\ Returned(Top(t)) = ReadResult(db, Top(t))

\* C32 witness: reads have returned what writes of this run committed:
\* is_admin_user(2) answers True where account 2 was no admin at first,
\* or get_user_reactions(1, 1) returns 3 where the count was 2.
C32_Witness ==
    \E t \in Threads :
        \/ /\ Committed(t, "is_admin_user")
           /\ Top(t).args.u = 2
           /\ Top(t).ret
        \/ /\ Committed(t, "get_user_reactions")
           /\ Top(t).ret = 3

\* the guilds that have a guild_config row in store d
Configured(d) == {r.guild_id : r \in d.guild_config}

\* C33: a guild_config row that exists for a guild exists in every later
\* state: no step of set_guild_config, save_config or another operation
\* of the store removes a guild_config row, and neither does the UPDATE or
\* the INSERT of set_guild_config run on the store of any state.
C33_GuildRowsStay ==
    /\ [][Configured(db) \subseteq Configured(db')]_vars
    /\ [](\A g \in Guilds, f \in ChannelFields :
            /\ Configured(db) \subseteq
                   Configured(UpdateGuildConfig(db, g, f).db)
            /\ Configured(db) \subseteq
                   Configured(InsertGuildConfig(db, g, f).db))

\* C33 witness: the row of guild 1 is stored after init_database ran
\* again, save_config stored its global log channel and called
\* set_guild_config for guild 1.
C33_Witness ==
    /\ SelectGuildConfig(db, 1) # {}
    /\ hist.startups = 1
    /\ hist.settings["global_log_channel_id"] = {"5"}
    /\ \E t \in Threads :
          /\ Len(stack[t]) >= 2
          /\ stack[t][1].fn = "save_config"
          /\ stack[t][2].fn = "set_guild_config"
          /\ stack[t][2].args.g = 1
          /\ stack[t][2].conn

\* C34: save_reactions(data) sets the count of each listed (guild, user)
\* pair to exactly the listed value, also when increment_user_reactions
\* calls on the pair run between its read and its write: when the write
\* save_reactions makes for an entry commits, the stored count of the
\* pair is the entry's value.
C34_SaveSetsCount ==
    \A t \in Threads :
        (/\ Len(stack[t]) = 2
         /\ stack[t][1].fn = "save_reactions"
         /\ Committed(t, "increment_user_reactions"))
            => CountOf(db, Top(t).args.g, Top(t).args.u)
                   = stack[t][1].args.f[stack[t][1].i].n

\* a /support request of thread t has ended
RequestEnded(t) ==
    /\ Len(stack[t]) = 1
    /\ TopIs(t, "support_request", "done")

\* C35: a support request issued in a direct message creates an open
\* ticket whose guild_name is "Direct Message", as a request from a guild
\* creates one with the guild's id and name: a direct-message request that
\* got past the early returns ends without error, with its ticket stored.
C35_DirectMessageTicket ==
    \A t \in Threads :
        (/\ RequestEnded(t)
         /\ Top(t).args.g = NoneInt
         /\ Top(t).snap.banned_users = {}
         /\ Top(t).err # "none" \/ Top(t).args.id # None)
            => /\ Top(t).err = "none"
               /\ \E r \in db.tickets :
                      /\ r.ticket_id = Top(t).args.id
                      /\ r.status = "open"
                      /\ r.guild_name = "Direct Message"

\* the command at the bottom of thread t's stack is fn
Runs(t, fn) == HasFrame(t) /\ stack[t][1].fn = fn

\* C36: a support request of a user who is banned when the request checks
\* never creates a ticket: a request goes on to load_config and
\* create_ticket only when the ban check answered False, a denied request
\* has ended with no ticket id, and account 2, banned throughout, has no
\* ticket. A reply command goes on to get_ticket only when the admin check
\* answered True, ends at once for a missing or not open ticket, and calls
\* delete_ticket only for a ticket it read as open.
C36_DeniedCommandsChangeNothing ==
    \A t \in Threads :
        /\ (Runs(t, "support_request") /\ Len(stack[t]) >= 2
               /\ stack[t][1].pc = "body3")
              => stack[t][1].tmp = FALSE
        /\ (Runs(t, "support_request")
               /\ stack[t][1].snap.banned_users # {})
              => /\ RequestEnded(t)
                 /\ Top(t).ret = "banned"
                 /\ Top(t).args.id = None
        /\ \A r \in db.tickets : r.user_id # 2
        /\ (Runs(t, "reply_to_ticket") /\ Len(stack[t]) >= 2
               /\ stack[t][1].pc = "body3")
              => stack[t][1].tmp = TRUE
        /\ (Runs(t, "reply_to_ticket")
               /\ stack[t][1].pc \in {"body4", "body5"})
              => /\ stack[t][1].snap.tickets # {}
                 /\ \A r \in stack[t][1].snap.tickets : r.status = "open"
        /\ (Runs(t, "reply_to_ticket") /\ stack[t][1].err = "none"
               /\ stack[t][1].pc = "done" /\ stack[t][1].ret # "replied")
              => stack[t][1].ret \in {"not_admin", "not_found",
                                      "already_closed"}

\* C36 witness: the request of banned account 2 has ended as denied, or
\* the reply of account 2, no admin, has ended as refused, and the request
\* of account 1 has stored a ticket.
C36_Witness ==
    /\ \E t \in Threads :
          \/ /\ RequestEnded(t)
             /\ Top(t).err = "none"
             /\ Top(t).ret = "banned"
          \/ /\ TopIs(t, "reply_to_ticket", "done")
             /\ Top(t).err = "none"
             /\ Top(t).ret = "not_admin"
    /\ hist.issued # {}

\* C37: every stored ticket was delivered to the support channel: when the
\* send to the support channel fails and the user is told that the request
\* could not be sent, no ticket of that request remains in the store.
C37_UndeliveredNotStored ==
    \A t \in Threads :
        (/\ RequestEnded(t)
         /\ Top(t).err = "none"
         /\ Top(t).ret = "not_sent")
            => SelectTicket(db, Top(t).args.id) = {}

\* the reply command of thread t has sent its response to the user
ResponseSent(t) ==
    /\ Runs(t, "reply_to_ticket")
    /\ \/ stack[t][1].pc = "body5"
       \/ /\ stack[t][1].pc = "done"
          /\ stack[t][1].err = "none"
          /\ stack[t][1].ret = "replied"

NotOpen(rows) == Cardinality({r \in rows : r.status # "open"})

\* C39: the closed-ticket count ticketstats reports, the size of
\* load_tickets() minus the size of get_open_tickets(), is never negative
\* and is the number of stored tickets whose status is not "open" (of the
\* store as first read or as it is at the end), also when tickets are
\* created, closed or deleted between the two reads.
C39_ClosedCount ==
    \A t \in Threads :
        (/\ TopIs(t, "ticket_stats", "done")
         /\ ~Top(t).ret.denied)
            => /\ Top(t).ret.closed >= 0
               /\ Top(t).ret.closed \in {NotOpen(Top(t).snap.tickets),
                                         NotOpen(db.tickets)}

\* C40: under create_ticket, close_ticket, delete_ticket and
\* cleanup_old_tickets calls every stored ticket is open or closed by an
\* actor; its status is closed_by_X exactly when its closed_by is X and
\* its closed_timestamp is set, and "open" exactly when closed_by and
\* closed_timestamp are absent.
C40_StatusMatchesClosing ==
    \A r \in db.tickets :
        /\ r.status \in {"open"} \cup {"closed_by_" \o x : x \in Actors}
        /\ \A x \in Actors :
              (r.status = "closed_by_" \o x)
                  <=> (r.closed_by = x /\ r.closed_timestamp # None)
        /\ (r.status = "open")
              <=> (r.closed_by = None /\ r.closed_timestamp = None)

\* C40 witness: a ticket created in this run has been closed by its user
\* with close_ticket.
C40_Witness ==
    /\ \E r \in db.tickets :
          /\ r.created_at = 0
          /\ r.status = "closed_by_user"
          /\ r.closed_by = "user"
          /\ r.closed_timestamp = IsoFormat(now)
    /\ \E t \in Threads : TopIs(t, "close_ticket", "done")

====
